---- MODULE Spec2Model ----
(***************************************************************************)
(* State-machine model of the scraper service's extraction and enrichment  *)
(* orchestration:                                                          *)
(*   - GoogleMapsScraperOptimized.scrape, _search_places_optimized and     *)
(*     _extract_place_details_optimized                                    *)
(*     (src/scraper-service/scrapers/google_maps_optimized.py)             *)
(*   - WebsiteEnrichment.enrich_from_website, _extract_from_page,          *)
(*     _find_contact_page and _merge_data                                  *)
(*     (src/scraper-service/website_enrichment.py)                         *)
(*                                                                         *)
(* The variable `entry` names the operation that is being called:          *)
(*   "scrape"  a call of scrape(config)                  (SpecScrape)      *)
(*   "search"  a call of _search_places_optimized alone  (SpecSearch)      *)
(*   "enrich"  a call of enrich_from_website             (SpecEnrich)      *)
(* The browser, the search surface and the fetched web pages are the       *)
(* environment: every outcome they can produce is a nondeterministic       *)
(* choice of the action that awaits them.                                  *)
(***************************************************************************)
EXTENDS Integers, Sequences, FiniteSets, Bags, TLC

(***************************************************************************)
(* Bounds of the model.                                                    *)
(*                                                                         *)
(* batch_size and max_scroll_attempts are the source's local constants     *)
(* (google_maps_optimized.py:131 sets batch_size = 15, :184 sets           *)
(* max_scroll_attempts = 30).  The code is parametric in both; the model   *)
(* keeps them as parameters and checks them at reduced values so that      *)
(* windows of batch_size concurrent tasks and runs of max_scroll_attempts  *)
(* iterations can be explored exhaustively.                                *)
(***************************************************************************)
batch_size == 2

max_scroll_attempts == 6

\* number of distinct place URLs the search surface can show
NumUrls == 3

\* largest max_results (targetCount) a call is given
MaxTarget == 3

\* config['search_terms']: the search terms of the call
search_terms == <<"term1", "term2">>

\* google_maps_optimized.py:215  "if no_new_results_count >= 3"
stall_limit == 3

\* number of distinct e-mail addresses and postal addresses the fetched pages
\* can hold
NumEmails == 6

NumAddresses == 4

\* website_enrichment.py:145  list(set(...))[:5]   "Max 5 emails"
max_emails == 5

\* website_enrichment.py:146 and :267  [:5]         "Max 5 phones"
max_phones == 5

\* number of distinct phone numbers the fetched pages can hold: one more than
\* a page or a result keeps
NumPhones == max_phones + 1

\* website_enrichment.py:147 and :333  [:3]         "Max 3 addresses"
max_addresses == 3

Urls == 1..NumUrls

TargetCounts == 0..MaxTarget

VARIABLES
    entry,                  \* the operation under analysis
    max_results,            \* config['max_results'] / the max_results argument
    progress_callback,      \* the progress_callback argument ("None": not given)
    exc,                    \* where the exception that is pending or was raised began
    nav_failed,             \* the page.goto of the current session failed
    first_seen,             \* per URL, the rank of the collection that found it (0: none)
    context_closes,         \* how often context.close() was called
    pc,                     \* position in scrape
    context,                \* browsing context: "none" | "open" | "closed"
    term,                   \* index of the current search term (0 = none yet)
    all_results,            \* scrape's all_results: sequence of records (by url)
    places_to_process,      \* places[:max_results] of the current term
    i,                      \* offset of the current window in places_to_process
    window,                 \* number of windows started so far in this call
    tasks,                  \* live extraction tasks: [url, win, st]
    results_before,         \* all_results as it was when the current window began
    dpc,                    \* position in _search_places_optimized
    search_page,            \* the search page is open
    place_urls,             \* the accumulating set of place URLs
    scroll_attempts,
    no_new_results_count,
    exit_reason,            \* why the discovery loop was left
    last_links,             \* hrefs read by the latest collection ("search" only)
    same_run,               \* consecutive collections that read the same hrefs
                            \* as the collection before them
    run_base,               \* place_urls after the collection that began the run
    checks,                 \* collections performed in this session
    result,                 \* returned value of the call
    website_url,            \* enrich_from_website's argument ("" = no URL)
    check_contact_page,     \* enrich_from_website's flag
    focus,                  \* the kind of content the fetched pages differ in
    epc,                    \* position in enrich_from_website
    enrichment_data,        \* the accumulator, returned at the end
    main_page_data,         \* what _extract_from_page returned for website_url
    contact_data,           \* what _extract_from_page returned for the contact page
    anchor_href,            \* where the home page's first contact anchor points
    probe,                  \* number of contact paths probed so far
    responded,              \* position of the path that answered 200 (0: none)
    anchor_scanned,         \* the home page was fetched for its anchors
    home,                   \* [fetch, page, raised]: the fetch of website_url
    contact,                \* [fetch, page, raised]: the fetch of the contact page
    finalized,              \* step 3 (lines 145-147) has run
    absorbed                \* the handler of lines 151-152 has run

scrape_vars == <<pc, exc, context, context_closes, term, all_results,
                 places_to_process, i, window, tasks, results_before>>

search_vars == <<dpc, search_page, place_urls, scroll_attempts,
                 no_new_results_count, exit_reason, nav_failed, first_seen,
                 last_links, same_run, run_base, checks>>

\* the arguments of the call and the site it is made on
enrich_args == <<website_url, check_contact_page, focus, anchor_href>>

enrich_vars == <<enrich_args, epc, enrichment_data, main_page_data,
                 contact_data, probe, responded, anchor_scanned, home, contact,
                 finalized, absorbed>>

\* the state of the operations that are called on their own: the email
\* heuristic of the enrichment service
VARIABLES
    hrefs,            \* href of every <a href=...> of the page, in order
    text_emails,      \* email_pattern.findall(soup.get_text())
    source_emails,    \* email_pattern.findall(html)
    section_emails,   \* email_pattern.findall over the contact sections
    mpc,              \* position in _extract_emails
    emails,           \* the local set emails
    emails_returned,  \* list(emails)
    filter_log        \* history: each call of _is_business_email and its result

email_vars == <<hrefs, text_emails, source_emails, section_emails, mpc,
                emails, emails_returned, filter_log>>

\* one call of _extract_place_details_optimized(context, url, ...)
VARIABLES
    enrich_contacts,  \* the argument enrich_contacts
    rating_label,     \* aria-label of the rating element of the place page
    reviews_label,    \* aria-label of the reviews element
    website_href,     \* href of the website element
    tpc,              \* position in the task
    place_data,       \* the record being built: key -> value
    task_result,      \* what the task returned
    task_failure,     \* the step of the task that raised, if one did
    enrich_calls      \* the check_contact_page argument of each call of
                      \* enrich_from_website

task_vars == <<enrich_contacts, rating_label, reviews_label, website_href,
               tpc, place_data, task_result, task_failure, enrich_calls>>

VARIABLES
    loop_messages   \* history: the progress messages the discovery loop has
                    \* passed to progress_callback in the current session

\* a ProxyManager
VARIABLES
    proxies,      \* self.proxies: the list of Proxy objects
    now,          \* the clock read by datetime.now
    added,        \* the number of calls of add_proxy so far
    last_call,    \* quality of the call of get_rotating_proxy that has just
                  \* returned, "none" after any other operation
    returned,     \* id of the proxy that call returned, "None" for None
    rr_run        \* history: ids returned by the latest consecutive
                  \* round-robin calls

proxy_vars == <<proxies, now, added, last_call, returned, rr_run>>

\* one call of _extract_social_media(soup, html, base_url)
VARIABLES
    a_tags,        \* href of every <a href=...> of the page, in order
    markup_urls,   \* the URLs of the raw markup that are not such an href
    spc,           \* position in _extract_social_media
    social_links   \* the local dict social_links: platform -> URL

social_vars == <<a_tags, markup_urls, spc, social_links>>

\* one call of scrape_google_maps_optimized(input_data)
VARIABLES
    wpc,             \* position in the wrapper, "idle" when scrape is called
                     \* without it
    wrapper_result,  \* what the wrapper returned
    cleanups         \* the calls of engine.cleanup

wrapper_vars == <<wpc, wrapper_result, cleanups>>

op_vars == <<email_vars, task_vars, proxy_vars, social_vars, wrapper_vars>>

aux_vars == <<op_vars, loop_messages>>

core_vars == <<max_results, progress_callback, scrape_vars, search_vars,
               result, enrich_vars, loop_messages, wrapper_vars>>

vars == <<entry, max_results, progress_callback, scrape_vars, search_vars,
          result, enrich_vars, aux_vars>>

----------------------------------------------------------------------------
(* Helpers *)

Min(a, b) == IF a < b THEN a ELSE b

\* list(place_urls): a Python set has no defined iteration order
Orderings(S) ==
    {f \in [1..Cardinality(S) -> S] : \A a, b \in 1..Cardinality(S) : a # b => f[a] # f[b]}

\* seq[:n]
Take(seq, n) == SubSeq(seq, 1, Min(n, Len(seq)))

----------------------------------------------------------------------------
(* The data of website_enrichment.py *)

Emails == 1..NumEmails

Phones == 1..NumPhones

Addresses == 1..NumAddresses

\* lines 57-68: self.contact_paths, in probing order
contact_paths ==
    <<"/contact", "/contact-us", "/contactus", "/about", "/about-us",
      "/aboutus", "/get-in-touch", "/reach-us", "/support", "/help">>

\* lines 184-193: the four heuristics of _extract_from_page, in call order
Heuristics == <<"emails", "phones", "socialMedia", "addresses">>

Position(h) == CHOOSE k \in DOMAIN Heuristics : Heuristics[k] = h

\* 'socialMedia': {}
EmptyMap == [p \in {} |-> ""]

\* what _extract_social_media finds on a page: platform -> first matching URL
SocialMaps ==
    { EmptyMap,
      [p \in {"facebook"} |-> "https://facebook.com/a"],
      [p \in {"facebook", "instagram"} |->
          IF p = "facebook" THEN "https://facebook.com/b"
                            ELSE "https://instagram.com/b"] }

\* a page is described by what each heuristic finds on it
NoPage == [emails |-> {}, phones |-> {}, socialMedia |-> EmptyMap, addresses |-> {}]

BasePage ==
    [emails |-> {1}, phones |-> {1},
     socialMedia |-> [p \in {"facebook"} |-> "https://facebook.com/a"],
     addresses |-> {1}]

\* two overlapping small sets and one that exceeds every cap
ContentSets(n) == {{1, 2}, {2, 3}, 1..n}

Kinds == {"emails", "phones", "socialMedia", "addresses", "heuristics"}

\* the pages a site of kind f serves: they differ in one kind of content, or
\* (kind "heuristics") hold a little of each
Pages(f) ==
    CASE f = "emails" ->
           {[BasePage EXCEPT !.emails = S] : S \in ContentSets(NumEmails)}
      [] f = "phones" ->
           {[BasePage EXCEPT !.phones = S] : S \in ContentSets(NumPhones)}
      [] f = "addresses" ->
           {[BasePage EXCEPT !.addresses = S] : S \in ContentSets(NumAddresses)}
      [] f = "socialMedia" ->
           {[BasePage EXCEPT !.socialMedia = m] : m \in SocialMaps}
      [] OTHER ->
           { BasePage,
             [emails |-> {2}, phones |-> {2},
              socialMedia |-> [p \in {"facebook", "instagram"} |->
                                 IF p = "facebook" THEN "https://facebook.com/b"
                                                   ELSE "https://instagram.com/b"],
              addresses |-> {2}] }

\* the heuristic that raises on a page, if one does
Raises(f) ==
    IF f = "heuristics"
    THEN {"none"} \cup {Heuristics[k] : k \in DOMAIN Heuristics}
    ELSE {"none"}

\* the outcomes of fetching a page: the request fails (timeout, connection or
\* decoding error), the response is not 200 (its body is not read), or the
\* response is 200 and the heuristics run on its body
PageOutcomes(f) ==
    {[fetch |-> "error", page |-> NoPage, raised |-> "none"]}
    \cup {[fetch |-> "non200", page |-> p, raised |-> "none"] : p \in Pages(f)}
    \cup {[fetch |-> "ok", page |-> p, raised |-> r] : p \in Pages(f), r \in Raises(f)}

\* the home page's first anchor whose text names a contact page: none, or its
\* absolute URL (lines 373-384)
AnchorLinks == {"None", "https://site.example/kontakt"}

NoFetch == [fetch |-> "none", page |-> NoPage, raised |-> "none"]

\* lines 158-163: data, as _extract_from_page creates it
EmptyPageData ==
    [emails |-> EmptyBag, phones |-> EmptyBag, socialMedia |-> EmptyMap,
     addresses |-> EmptyBag]

\* lines 120-126: the accumulator; its lists are kept as bags, the order of a
\* list built from a Python set being chosen when the list is returned
EmptyData ==
    [emails |-> EmptyBag, phones |-> EmptyBag, socialMedia |-> EmptyMap,
     contactPageUrl |-> "None", addresses |-> EmptyBag]

\* list(some_set)[:cap]: the elements kept, whatever the order of the set
CapSubsets(S, cap) ==
    {T \in SUBSET S : Cardinality(T) = Min(cap, Cardinality(S))}

\* list(set(lst))[:cap]: distinct elements in the order the set yields them
CappedLists(S, cap) ==
    LET n == Min(cap, Cardinality(S))
    IN  {f \in [1..n -> S] : \A a, b \in 1..n : a # b => f[a] # f[b]}

\* the lists that hold the elements of bag B, each as often as B does
RawLists(B) ==
    LET n == BagCardinality(B)
    IN  {f \in [1..n -> BagToSet(B)] :
           \A e \in BagToSet(B) :
              Cardinality({k \in 1..n : f[k] = e}) = CopiesIn(e, B)}

InitEnrichVars ==
    /\ website_url = ""
    /\ check_contact_page = FALSE
    /\ focus = "emails"
    /\ anchor_href = "None"
    /\ epc = "idle"
    /\ enrichment_data = EmptyData
    /\ main_page_data = EmptyPageData
    /\ contact_data = EmptyPageData
    /\ probe = 0
    /\ responded = 0
    /\ anchor_scanned = FALSE
    /\ home = NoFetch
    /\ contact = NoFetch
    /\ finalized = FALSE
    /\ absorbed = FALSE

----------------------------------------------------------------------------
(* _search_places_optimized  (google_maps_optimized.py:170-247) *)

\* the value last_links holds before the first collection (0 is no URL)
NoLinks == {0}

\* a loop condition that forgets the attempts bound
LoopCond_NoAttemptsBound(sa, pu) ==
    2 * Cardinality(pu) < 3 * max_results

\* line 187: while scroll_attempts < max_scroll_attempts
\*                 and len(place_urls) < max_results * 1.5
LoopCond(sa, pu) ==
    /\ sa < max_scroll_attempts
    /\ 2 * Cardinality(pu) < 3 * max_results

\* why the while condition of line 187 is false
LoopExitReason(sa, pu) ==
    IF sa >= max_scroll_attempts THEN "attempts" ELSE "overcollected"

\* a satisfaction test that is off by one
Satisfied_Strict(pu) == Cardinality(pu) > max_results

\* line 209: if len(place_urls) >= max_results
Satisfied(pu) == Cardinality(pu) >= max_results

\* a stall test that waits for one more idle collection
Stalled_OneMore(nn) == nn >= stall_limit + 1

\* line 215: if no_new_results_count >= 3
Stalled(nn) == nn >= stall_limit

\* an exception that leaves _search_places_optimized reaches its caller:
\* scrape's try/finally (lines 117-163), or the direct caller
Propagate == IF entry = "scrape" THEN "finally_exc" ELSE "raised"

\* what an invocation of the progress callback can do; without a callback
\* there is no invocation ("if progress_callback:")
SinkOutcomes == IF progress_callback = "None" THEN {"ok"} ELSE {"ok", "raises"}

\* line 172: page = await context.new_page(), outside the try block
D_NewPage ==
    /\ pc = "search" /\ dpc = "new_page"
    /\ \E ok \in BOOLEAN :
         IF ok
         THEN /\ search_page' = TRUE
              /\ place_urls' = {}
              /\ dpc' = "goto"
              /\ UNCHANGED <<pc, exc>>
         ELSE /\ dpc' = "idle"
              /\ pc' = Propagate
              /\ exc' = "page"
              /\ UNCHANGED <<search_page, place_urls>>
    /\ UNCHANGED <<entry, aux_vars, max_results, progress_callback, context,
                   context_closes, term, all_results,
                   places_to_process, i, window, tasks, results_before,
                   scroll_attempts, no_new_results_count, exit_reason,
                   nav_failed, first_seen, last_links, same_run, run_base, checks, result,
                   enrich_vars>>

\* lines 176-187: page.goto, the initial settle, the counters and the first
\* evaluation of the while condition; a failing goto is caught at line 241
D_Goto ==
    /\ pc = "search" /\ dpc = "goto"
    /\ \E ok \in BOOLEAN :
         IF ok
         THEN /\ scroll_attempts' = 0
              /\ no_new_results_count' = 0
              /\ nav_failed' = nav_failed
              /\ IF LoopCond(0, place_urls)
                 THEN dpc' = "collect" /\ exit_reason' = exit_reason
                 ELSE dpc' = "close" /\ exit_reason' = LoopExitReason(0, place_urls)
         ELSE /\ dpc' = "close"
              /\ exit_reason' = "error"
              /\ nav_failed' = TRUE
              /\ UNCHANGED <<scroll_attempts, no_new_results_count>>
    /\ UNCHANGED <<entry, aux_vars, max_results, progress_callback, scrape_vars,
                   search_page, place_urls, first_seen, last_links, same_run, run_base,
                   checks, result, enrich_vars>>

\* lines 188-206: one collection.  `links` is the set of hrefs that were read
\* and contain '/maps/place/': an element whose href cannot be read, or is
\* empty or foreign, is skipped (lines 194-199).  query_selector_all raising
\* is caught at line 241.
D_Collect ==
    /\ pc = "search" /\ dpc = "collect"
    /\ \/ \E links \in SUBSET Urls :
            /\ place_urls' = place_urls \cup links
            /\ no_new_results_count' =
                 IF Cardinality(place_urls') = Cardinality(place_urls)
                 THEN no_new_results_count + 1
                 ELSE 0
            /\ dpc' = "check"
            /\ exit_reason' = exit_reason
            /\ IF entry = "search"
               THEN /\ last_links' = links
                    /\ same_run' = IF links = last_links THEN same_run + 1 ELSE 0
                    /\ run_base' = IF links = last_links THEN run_base ELSE place_urls'
                    /\ checks' = checks + 1
                    /\ first_seen' =
                         [u \in Urls |->
                            IF u \in links \ place_urls
                            THEN Cardinality({first_seen[v] : v \in place_urls}) + 1
                            ELSE first_seen[u]]
               ELSE UNCHANGED <<last_links, same_run, run_base, checks, first_seen>>
       \/ /\ dpc' = "close"
          /\ exit_reason' = "error"
          /\ UNCHANGED <<place_urls, no_new_results_count, last_links, same_run,
                         run_base, checks, first_seen>>
    /\ UNCHANGED <<entry, aux_vars, max_results, progress_callback, scrape_vars,
                   search_page, scroll_attempts, nav_failed, result, enrich_vars>>

\* lines 208-217: the exit conditions evaluated after a collection.  The
\* satisfied exit first reports to the progress callback (lines 210-211),
\* inside the try block: a raising callback is caught at line 241
SatisfiedMessages == IF progress_callback # "None" THEN 1 ELSE 0

\* lines 215-217: the stalled exit writes to the logger only
StalledMessages == 0

D_Check ==
    /\ pc = "search" /\ dpc = "check"
    /\ \E cb \in SinkOutcomes :
         IF Satisfied(place_urls)
         THEN /\ dpc' = "close"
              /\ exit_reason' = IF cb = "raises" THEN "sink_error" ELSE "satisfied"
              /\ loop_messages' = loop_messages + SatisfiedMessages
         ELSE IF Stalled(no_new_results_count)
              THEN /\ dpc' = "close" /\ exit_reason' = "stalled"
                   /\ loop_messages' = loop_messages + StalledMessages
              ELSE /\ dpc' = "scroll" /\ exit_reason' = exit_reason
                   /\ loop_messages' = loop_messages
    /\ UNCHANGED <<entry, op_vars, max_results, progress_callback, scrape_vars,
                   search_page, place_urls, scroll_attempts,
                   no_new_results_count, nav_failed, first_seen, last_links, same_run,
                   run_base, checks, result, enrich_vars>>

\* lines 219-237 and the next evaluation of line 187: scroll the feed, wait,
\* count the attempt; a failing scroll breaks out of the loop (line 235)
D_Scroll ==
    /\ pc = "search" /\ dpc = "scroll"
    /\ \E ok \in BOOLEAN :
         IF ok
         THEN /\ scroll_attempts' = scroll_attempts + 1
              /\ IF LoopCond(scroll_attempts + 1, place_urls)
                 THEN dpc' = "collect" /\ exit_reason' = exit_reason
                 ELSE /\ dpc' = "close"
                      /\ exit_reason' = LoopExitReason(scroll_attempts + 1, place_urls)
         ELSE /\ dpc' = "close"
              /\ exit_reason' = "scroll_error"
              /\ scroll_attempts' = scroll_attempts
    /\ UNCHANGED <<entry, aux_vars, max_results, progress_callback, scrape_vars,
                   search_page, place_urls, no_new_results_count, nav_failed,
                   first_seen, last_links, same_run, run_base, checks, result, enrich_vars>>

\* a finally block that leaves the page open
ClosePage_Leak(page) == page

\* line 245 (and line 378): await page.close()
ClosePage(page) == FALSE

\* lines 244-247: finally page.close(); return list(place_urls).
\* In scrape the number of places is reported to the progress callback
\* (lines 127-128), the list is cut to places[:max_results] (line 132) and
\* the window loop starts at i = 0 (line 134); the locals of the finished
\* session are gone.
D_Close ==
    /\ pc = "search" /\ dpc = "close"
    /\ search_page' = ClosePage(search_page)
    /\ dpc' = "idle"
    /\ \E places \in Orderings(place_urls) :
         IF entry = "scrape"
         THEN /\ \E cb \in SinkOutcomes :
                   IF cb = "raises"
                   THEN /\ pc' = "finally_exc"
                        /\ exc' = "sink"
                        /\ UNCHANGED places_to_process
                   ELSE /\ places_to_process' = Take(places, max_results)
                        /\ pc' = "for_batch"
                        /\ exc' = exc
              /\ i' = 0
              /\ result' = result
              /\ place_urls' = {}
              /\ scroll_attempts' = 0
              /\ no_new_results_count' = 0
              /\ exit_reason' = "none"
              /\ loop_messages' = 0
         ELSE /\ result' = places
              /\ pc' = "returned"
              /\ UNCHANGED <<exc, places_to_process, i, place_urls,
                             scroll_attempts, no_new_results_count, exit_reason,
                             loop_messages>>
    /\ UNCHANGED <<entry, op_vars, max_results, progress_callback, context,
                   context_closes, term, all_results, window, tasks,
                   results_before, nav_failed, first_seen, last_links, same_run, run_base,
                   checks, enrich_vars>>

Search == D_NewPage \/ D_Goto \/ D_Collect \/ D_Check \/ D_Scroll \/ D_Close

InitSearchVars ==
    /\ search_page = FALSE
    /\ place_urls = {}
    /\ scroll_attempts = 0
    /\ no_new_results_count = 0
    /\ exit_reason = "none"
    /\ nav_failed = FALSE
    /\ first_seen = [u \in Urls |-> 0]
    /\ last_links = NoLinks
    /\ same_run = 0
    /\ run_base = {}
    /\ checks = 0

InitEmailVars ==
    /\ hrefs = <<>>
    /\ text_emails = <<>>
    /\ source_emails = <<>>
    /\ section_emails = <<>>
    /\ mpc = "idle"
    /\ emails = {}
    /\ emails_returned = <<>>
    /\ filter_log = {}

InitTaskVars ==
    /\ enrich_contacts = FALSE
    /\ rating_label = <<>>
    /\ reviews_label = <<>>
    /\ website_href = "None"
    /\ tpc = "idle"
    /\ place_data = <<>>
    /\ task_result = "pending"
    /\ task_failure = "none"
    /\ enrich_calls = <<>>

\* proxy_manager.py:16-18
InitProxyVars ==
    /\ proxies = <<>>
    /\ now = 0
    /\ added = 0
    /\ last_call = "none"
    /\ returned = "None"
    /\ rr_run = <<>>

InitSocialVars ==
    /\ a_tags = <<>>
    /\ markup_urls = <<>>
    /\ spc = "idle"
    /\ social_links = <<>>

InitWrapperVars ==
    /\ wpc = "idle"
    /\ wrapper_result = "none"
    /\ cleanups = 0

InitAuxVars ==
    /\ InitEmailVars
    /\ InitTaskVars
    /\ InitProxyVars
    /\ InitSocialVars
    /\ InitWrapperVars
    /\ loop_messages = 0

InitScrapeVars ==
    /\ exc = "none"
    /\ context = "none"
    /\ context_closes = 0
    /\ term = 0
    /\ all_results = <<>>
    /\ places_to_process = <<>>
    /\ i = 0
    /\ window = 0
    /\ tasks = <<>>
    /\ results_before = <<>>

\* a direct call of _search_places_optimized(context, query, max_results)
InitSearch ==
    /\ entry = "search"
    /\ max_results \in TargetCounts
    /\ progress_callback \in {"None", "sink"}
    /\ pc = "search"
    /\ dpc = "new_page"
    /\ InitScrapeVars
    /\ InitSearchVars
    /\ InitAuxVars
    /\ InitEnrichVars
    /\ result = <<>>

SpecSearch == InitSearch /\ [][Search]_vars

\* the event loop resumes the coroutine whenever the operation it awaits has
\* returned or raised, and every awaited page operation does one or the other
\* (page.goto has timeout=30000, the others the driver's default timeout)
SpecSearchLive == SpecSearch /\ WF_vars(Search)

----------------------------------------------------------------------------
(* scrape  (google_maps_optimized.py:93-168) and the extraction tasks       *)
(* _extract_place_details_optimized  (google_maps_optimized.py:249-378)     *)

\* a task has settled when its coroutine has returned or raised
Settled(st) == st \in {"record", "none", "raised"}

\* the positions (in tasks) of the tasks of window w
WindowTasks(w) == {k \in DOMAIN tasks : tasks[k].win = w}

\* a slice that forgets its upper end
Batch_Unbounded(p, off) == SubSeq(p, off + 1, Len(p))

\* line 135: batch = places_to_process[i:i+batch_size]
Batch(p, off) == SubSeq(p, off + 1, Min(off + batch_size, Len(p)))

\* a wait that returns as soon as one task has settled
GatherReady_FirstCompleted(sts) == \E k \in DOMAIN sts : Settled(sts[k])

\* line 153: await asyncio.gather(*tasks, ...) returns when every task of the
\* window has settled
GatherReady(sts) == \A k \in DOMAIN sts : Settled(sts[k])

\* a gather that re-raises the first exception of a task
GatherPropagates_NoCapture(sts) == \E k \in DOMAIN sts : sts[k] = "raised"

\* line 153: return_exceptions=True - an exception of a task is returned as
\* that task's result and never raised by gather
GatherPropagates(sts) == FALSE

\* a filter that only skips exceptions
IsRecord_NotAnException(st) == st \in {"record", "none"}

\* line 156: if isinstance(result, dict)
IsRecord(st) == st = "record"

\* the statuses of the tasks of the current window, in task order
WindowStatuses ==
    LET ts == SelectSeq(tasks, LAMBDA t : t.win = window)
    IN  [k \in 1..Len(ts) |-> ts[k].st]

\* lines 155-157: the records of the window, in task order
WindowRecords ==
    LET ts == SelectSeq(tasks, LAMBDA t : t.win = window /\ IsRecord(t.st))
    IN  [k \in 1..Len(ts) |-> ts[k].url]

\* lines 111-115: the start message goes to the progress callback, then
\* context = await self.engine.create_context(...); both before the try block
CreateContext ==
    /\ pc = "start"
    /\ \E cb \in SinkOutcomes : \E ok \in BOOLEAN :
         IF cb = "raises"
         THEN context' = context /\ pc' = "raised" /\ exc' = "sink"
         ELSE IF ok
              THEN context' = "open" /\ pc' = "for_term" /\ exc' = exc
              ELSE context' = context /\ pc' = "raised" /\ exc' = "context"
    /\ UNCHANGED <<entry, aux_vars, max_results, progress_callback, context_closes, term,
                   all_results, places_to_process, i,
                   window, tasks, results_before, search_vars, result, enrich_vars>>

\* lines 118-125: for term in search_terms; the search message goes to the
\* progress callback, then _search_places_optimized is called
ForTerm ==
    /\ pc = "for_term"
    /\ IF term < Len(search_terms)
       THEN /\ term' = term + 1
            /\ nav_failed' = FALSE
            /\ \E cb \in SinkOutcomes :
                 IF cb = "raises"
                 THEN pc' = "finally_exc" /\ exc' = "sink" /\ dpc' = dpc
                 ELSE pc' = "search" /\ exc' = exc /\ dpc' = "new_page"
       ELSE /\ pc' = "finally"
            /\ UNCHANGED <<term, dpc, exc, nav_failed>>
    /\ UNCHANGED <<entry, aux_vars, max_results, progress_callback, context,
                   context_closes, all_results, places_to_process,
                   i, window, tasks, results_before, search_page, place_urls,
                   scroll_attempts, no_new_results_count, exit_reason,
                   first_seen, last_links, same_run, run_base, checks, result, enrich_vars>>

\* lines 134-151: for i in range(0, len(places_to_process), batch_size):
\* the progress of the window goes to the progress callback (lines 137-139),
\* then one task per URL of the batch is created; when the range is exhausted
\* the loop's locals are dead
ForBatch ==
    /\ pc = "for_batch"
    /\ IF i < Len(places_to_process)
       THEN \E cb \in SinkOutcomes :
              IF cb = "raises"
              THEN /\ pc' = "finally_exc"
                   /\ exc' = "sink"
                   /\ UNCHANGED <<window, tasks, results_before,
                                  places_to_process, i>>
              ELSE LET batch == Batch(places_to_process, i)
                   IN  /\ window' = window + 1
                       /\ tasks' = tasks \o [k \in 1..Len(batch) |->
                                               [url |-> batch[k], win |-> window + 1,
                                                st |-> "created", page |-> FALSE]]
                       /\ results_before' = all_results
                       /\ pc' = "gather"
                       /\ UNCHANGED <<places_to_process, i, exc>>
       ELSE /\ pc' = "for_term"
            /\ places_to_process' = <<>>
            /\ i' = 0
            /\ UNCHANGED <<window, tasks, results_before, exc>>
    /\ UNCHANGED <<entry, aux_vars, max_results, progress_callback, context,
                   context_closes, term, all_results,
                   search_vars, result, enrich_vars>>

\* line 258: page = await context.new_page(), outside the task's try block:
\* the detail page opens, or the task raises without a page
T_Open(k) ==
    /\ pc \notin {"returned", "raised"}
    /\ tasks[k].st = "created"
    /\ \E st \in {"open", "raised"} :
         tasks' = [tasks EXCEPT ![k].st = st, ![k].page = (st = "open")]
    /\ UNCHANGED <<entry, aux_vars, max_results, progress_callback, pc, exc, context,
                   context_closes, term, all_results,
                   places_to_process, i, window, results_before, search_vars,
                   result, enrich_vars>>

\* lines 260-378: the extraction of one place.  The task returns its record
\* (line 371), returns None after an exception or a timeout inside the try
\* block (lines 373-375), or raises; in each case the page is closed (377-378)
T_Settle(k) ==
    /\ pc \notin {"returned", "raised"}
    /\ tasks[k].st = "open"
    /\ \E st \in {"record", "none", "raised"} :
         tasks' = [tasks EXCEPT ![k].st = st, ![k].page = ClosePage(@)]
    /\ UNCHANGED <<entry, aux_vars, max_results, progress_callback, pc, exc, context,
                   context_closes, term, all_results,
                   places_to_process, i, window, results_before, search_vars,
                   result, enrich_vars>>

\* lines 153-157: gather returns; the dict results are appended in task order
GatherReturn ==
    /\ pc = "gather"
    /\ IF GatherPropagates(WindowStatuses)
       THEN /\ pc' = "finally_exc"
            /\ exc' = "task"
            /\ UNCHANGED all_results
       ELSE /\ GatherReady(WindowStatuses)
            /\ all_results' = all_results \o WindowRecords
            /\ pc' = "sleep"
            /\ exc' = exc
    /\ UNCHANGED <<entry, aux_vars, max_results, progress_callback, context,
                   context_closes, term, places_to_process, i,
                   window, tasks, results_before, search_vars, result, enrich_vars>>

\* line 160: await asyncio.sleep(0.2), then the next i.  The tasks that have
\* settled are finished and their results collected: they are dropped.
Sleep ==
    /\ pc = "sleep"
    /\ tasks' = SelectSeq(tasks, LAMBDA t : ~Settled(t.st))
    /\ i' = i + batch_size
    /\ pc' = "for_batch"
    /\ UNCHANGED <<entry, aux_vars, max_results, progress_callback, exc, context,
                   context_closes, term, all_results,
                   places_to_process, window, results_before, search_vars,
                   result, enrich_vars>>

\* a finally block that leaves the context open
CloseContext_Leak(c) == c

\* line 163: await context.close()
CloseContext(c) == "closed"

\* lines 162-168: finally await context.close(); then the completion message
\* goes to the progress callback and all_results is returned, or the pending
\* exception goes on to the caller
Finally ==
    /\ pc \in {"finally", "finally_exc"}
    /\ context' = CloseContext(context)
    /\ context_closes' = context_closes + 1
    /\ IF pc = "finally"
       THEN \E cb \in SinkOutcomes :
              IF cb = "raises"
              THEN pc' = "raised" /\ exc' = "sink" /\ result' = result
              ELSE pc' = "returned" /\ exc' = exc /\ result' = all_results
       ELSE pc' = "raised" /\ exc' = exc /\ result' = result
    /\ UNCHANGED <<entry, aux_vars, max_results, progress_callback, term, all_results,
                   places_to_process, i,
                   window, tasks, results_before, search_vars, enrich_vars>>

Scrape ==
    \/ CreateContext
    \/ ForTerm
    \/ Search
    \/ ForBatch
    \/ \E k \in DOMAIN tasks : T_Open(k)
    \/ \E k \in DOMAIN tasks : T_Settle(k)
    \/ GatherReturn
    \/ Sleep
    \/ Finally

\* a call of scrape(config) with config['max_results'] = max_results and
\* config['search_terms'] = search_terms, with or without a progress_callback
InitScrape ==
    /\ entry = "scrape"
    /\ max_results \in TargetCounts
    /\ progress_callback \in {"None", "sink"}
    /\ pc = "start"
    /\ dpc = "idle"
    /\ InitScrapeVars
    /\ InitSearchVars
    /\ InitAuxVars
    /\ InitEnrichVars
    /\ result = <<>>

SpecScrape == InitScrape /\ [][Scrape]_vars

----------------------------------------------------------------------------
(* enrich_from_website  (website_enrichment.py:92-154) with                 *)
(* _extract_from_page (156-198), _find_contact_page (335-389) and           *)
(* _merge_data (430-452)                                                    *)

\* a page whose body is parsed whatever the status of the response
PageParsed_AnyResponse(fetch) == fetch \in {"ok", "non200"}

\* lines 177-181: if response.status != 200: return data; a failed request
\* leaves the try block through the handler of line 195
PageParsed(fetch) == fetch = "ok"

\* lines 184-193 run in order inside one try block (165-196): heuristic h has
\* assigned its result when the body is parsed and no heuristic raised at or
\* before h
Ran(h, o) ==
    /\ PageParsed(o.fetch)
    /\ o.raised = "none" \/ Position(h) < Position(o.raised)

\* lines 158-198: the data _extract_from_page returns for outcome o, when
\* _extract_phones keeps ph (line 267) and _extract_addresses keeps ad (333)
ExtractFromPage(o, ph, ad) ==
    [emails      |-> IF Ran("emails", o) THEN SetToBag(o.page.emails) ELSE EmptyBag,
     phones      |-> IF Ran("phones", o) THEN SetToBag(ph) ELSE EmptyBag,
     socialMedia |-> IF Ran("socialMedia", o) THEN o.page.socialMedia ELSE EmptyMap,
     addresses   |-> IF Ran("addresses", o) THEN SetToBag(ad) ELSE EmptyBag]

\* a merge in which the source overwrites the target's platforms
MergeSocial_LastWins(t, src) ==
    [p \in DOMAIN t \cup DOMAIN src |-> IF p \in DOMAIN src THEN src[p] ELSE t[p]]

\* lines 441-444: a platform the target already has keeps its URL
MergeSocial(t, src) ==
    [p \in DOMAIN t \cup DOMAIN src |-> IF p \in DOMAIN t THEN t[p] ELSE src[p]]

\* lines 430-452 (page data has no 'contactPageUrl' key)
MergeData(target, source) ==
    [target EXCEPT !.emails = @ (+) source.emails,
                   !.phones = @ (+) source.phones,
                   !.socialMedia = MergeSocial(@, source.socialMedia),
                   !.addresses = @ (+) source.addresses]

\* the accumulator as it is returned when step 3 has not run
ReturnedRaw(d) ==
    {[emails |-> e, phones |-> ph, socialMedia |-> d.socialMedia,
      contactPageUrl |-> d.contactPageUrl, addresses |-> ad] :
        e \in RawLists(d.emails), ph \in RawLists(d.phones),
        ad \in RawLists(d.addresses)}

\* a step 3 that cuts the lists without deduplicating them
Finalizations_NoDedup(d) ==
    {[emails |-> Take(r.emails, max_emails), phones |-> Take(r.phones, max_phones),
      socialMedia |-> r.socialMedia, contactPageUrl |-> r.contactPageUrl,
      addresses |-> Take(r.addresses, max_addresses)] : r \in ReturnedRaw(d)}

\* lines 145-147: deduplicate and cap
Finalizations(d) ==
    {[emails |-> e, phones |-> ph, socialMedia |-> d.socialMedia,
      contactPageUrl |-> d.contactPageUrl, addresses |-> ad] :
        e \in CappedLists(BagToSet(d.emails), max_emails),
        ph \in CappedLists(BagToSet(d.phones), max_phones),
        ad \in CappedLists(BagToSet(d.addresses), max_addresses)}

\* lines 120-129: the accumulator is created; an empty URL returns it as is
E_Start ==
    /\ epc = "start"
    /\ IF website_url = ""
       THEN \E r \in ReturnedRaw(enrichment_data) :
               /\ result' = r
               /\ enrichment_data' = r
               /\ epc' = "returned"
       ELSE /\ epc' = "main"
            /\ UNCHANGED <<result, enrichment_data>>
    /\ UNCHANGED <<entry, aux_vars, max_results, progress_callback, scrape_vars, search_vars, enrich_args,
                   main_page_data, contact_data, probe, responded,
                   anchor_scanned, home, contact, finalized, absorbed>>

\* lines 133-136: the main page is fetched, its data merged
E_Main ==
    /\ epc = "main"
    /\ \E o \in PageOutcomes(focus) :
         \E ph \in CapSubsets(o.page.phones, max_phones) :
           \E ad \in CapSubsets(o.page.addresses, max_addresses) :
              /\ home' = o
              /\ main_page_data' = ExtractFromPage(o, ph, ad)
              /\ enrichment_data' = MergeData(enrichment_data, main_page_data')
    /\ epc' = IF check_contact_page THEN "find" ELSE "finalize"
    /\ UNCHANGED <<entry, aux_vars, max_results, progress_callback, scrape_vars, search_vars, result,
                   enrich_args, contact_data, probe, responded, anchor_scanned,
                   contact, finalized, absorbed>>

\* lines 138 and 337-338: _find_contact_page starts with urlparse(base_url),
\* outside every try block of the function: a ValueError it raises reaches
\* the handler of lines 151-152, which logs, and line 154 returns the
\* accumulator as it is
E_FindStart ==
    /\ epc = "find"
    /\ \E ok \in BOOLEAN :
         IF ok
         THEN /\ epc' = "probe"
              /\ UNCHANGED <<result, enrichment_data, absorbed>>
         ELSE \E r \in ReturnedRaw(enrichment_data) :
                 /\ result' = r
                 /\ enrichment_data' = r
                 /\ absorbed' = TRUE
                 /\ epc' = "returned"
    /\ UNCHANGED <<entry, aux_vars, max_results, progress_callback, scrape_vars, search_vars, enrich_args,
                   main_page_data, contact_data, probe, responded,
                   anchor_scanned, home, contact, finalized>>

\* a loop that walks contact_paths from its end
ProbedPath_Reversed(k) == Len(contact_paths) + 1 - k

\* line 341: for path in self.contact_paths - the position in contact_paths
\* of the k-th path that is probed
ProbedPath(k) == k

\* a probe that takes no status for a contact page
ProbeFound_Never(r) == FALSE

\* line 354: if response.status == 200
ProbeFound(r) == r = "200"

\* lines 341-358: the next path of contact_paths is probed with HEAD; status
\* 200 returns its URL (line 140 stores it), any other status and any
\* exception move on to the next path
E_Probe ==
    /\ epc = "probe"
    /\ probe' = probe + 1
    /\ \E r \in {"200", "other", "error"} :
         /\ responded' = IF r = "200" THEN ProbedPath(probe + 1) ELSE responded
         /\ IF ProbeFound(r)
            THEN /\ enrichment_data' =
                      [enrichment_data EXCEPT
                          !.contactPageUrl = contact_paths[ProbedPath(probe + 1)]]
                 /\ epc' = "contact"
            ELSE /\ epc' = IF probe + 1 < Len(contact_paths) THEN "probe" ELSE "anchor"
                 /\ UNCHANGED enrichment_data
    /\ UNCHANGED <<entry, aux_vars, max_results, progress_callback, scrape_vars, search_vars, result,
                   enrich_args, main_page_data, contact_data, anchor_scanned,
                   home, contact, finalized, absorbed>>

\* lines 360-389: the home page is fetched again and its anchors scanned; the
\* first anchor whose text holds a keyword and whose href starts with '/' or
\* 'http' is returned (anchor_href is its absolute URL); a failed fetch, a
\* status other than 200 or no such anchor return None (line 139 then skips
\* the contact page)
E_Anchor ==
    /\ epc = "anchor"
    /\ anchor_scanned' = TRUE
    /\ \E r \in {"200", "other", "error"} :
         IF r = "200" /\ anchor_href # "None"
         THEN /\ enrichment_data' =
                   [enrichment_data EXCEPT !.contactPageUrl = anchor_href]
              /\ epc' = "contact"
         ELSE /\ epc' = "finalize"
              /\ UNCHANGED enrichment_data
    /\ UNCHANGED <<entry, aux_vars, max_results, progress_callback, scrape_vars, search_vars, result,
                   enrich_args, main_page_data, contact_data, probe, responded,
                   home, contact, finalized, absorbed>>

\* lines 141-142: the contact page is fetched, its data merged
E_Contact ==
    /\ epc = "contact"
    /\ \E o \in PageOutcomes(focus) :
         \E ph \in CapSubsets(o.page.phones, max_phones) :
           \E ad \in CapSubsets(o.page.addresses, max_addresses) :
              /\ contact' = o
              /\ contact_data' = ExtractFromPage(o, ph, ad)
              /\ enrichment_data' = MergeData(enrichment_data, contact_data')
    /\ epc' = "finalize"
    /\ UNCHANGED <<entry, aux_vars, max_results, progress_callback, scrape_vars, search_vars, result,
                   enrich_args, main_page_data, probe, responded,
                   anchor_scanned, home, finalized, absorbed>>

\* lines 145-154: step 3, the log line and the return
E_Finalize ==
    /\ epc = "finalize"
    /\ \E r \in Finalizations(enrichment_data) :
         /\ enrichment_data' = r
         /\ result' = r
    /\ finalized' = TRUE
    /\ epc' = "returned"
    /\ UNCHANGED <<entry, aux_vars, max_results, progress_callback, scrape_vars, search_vars, enrich_args,
                   main_page_data, contact_data, probe, responded,
                   anchor_scanned, home, contact, absorbed>>

Enrich ==
    E_Start \/ E_Main \/ E_FindStart \/ E_Probe \/ E_Anchor \/ E_Contact
    \/ E_Finalize

\* a call of enrich_from_website(website_url, check_contact_page) on a site
\* of kind focus
InitEnrich ==
    /\ entry = "enrich"
    /\ max_results = 0
    /\ progress_callback = "None"
    /\ pc = "idle"
    /\ dpc = "idle"
    /\ InitScrapeVars
    /\ InitSearchVars
    /\ InitAuxVars
    /\ result = <<>>
    /\ website_url \in {"", "https://site.example"}
    /\ check_contact_page \in BOOLEAN
    /\ focus \in Kinds
    /\ anchor_href \in AnchorLinks
    /\ epc = "start"
    /\ enrichment_data = EmptyData
    /\ main_page_data = EmptyPageData
    /\ contact_data = EmptyPageData
    /\ probe = 0
    /\ responded = 0
    /\ anchor_scanned = FALSE
    /\ home = NoFetch
    /\ contact = NoFetch
    /\ finalized = FALSE
    /\ absorbed = FALSE

SpecEnrich == InitEnrich /\ [][Enrich]_vars

----------------------------------------------------------------------------
(* Properties of scrape's detail-extraction phase, checked under SpecScrape *)

\* the tasks of the current window that did not produce a record
FailedInWindow ==
    {k \in WindowTasks(window) : tasks[k].st \in {"none", "raised"}}

\* C1 (batch isolation): when a window has been awaited, whichever of its n
\* tasks raised, timed out or returned no record (k of them), every other task
\* has contributed exactly one record, in task order, the window has
\* contributed n - k records, and the call has not failed: scrape never fails
\* while extraction tasks are live.
C1_BatchIsolation ==
    /\ pc = "sleep" =>
         /\ \A k \in WindowTasks(window) : Settled(tasks[k].st)
         /\ Len(all_results) =
              Len(results_before) + Cardinality(WindowTasks(window))
                                  - Cardinality(FailedInWindow)
         /\ SubSeq(all_results, 1, Len(results_before)) = results_before
         /\ \A k \in WindowTasks(window) :
              Cardinality({j \in (Len(results_before) + 1)..Len(all_results) :
                             all_results[j] = tasks[k].url})
                = IF tasks[k].st = "record" THEN 1 ELSE 0
    /\ pc \in {"finally_exc", "raised"} => tasks = <<>>

\* a full window was awaited in which one task raised and every other task
\* produced its record
C1_Witness ==
    /\ pc = "sleep"
    /\ Cardinality(WindowTasks(window)) = batch_size
    /\ \E k \in WindowTasks(window) : tasks[k].st = "raised"
    /\ \E k \in WindowTasks(window) : tasks[k].st = "record"
    /\ Len(all_results) = Len(results_before) + batch_size - 1

\* C2 (sequential windows): every live extraction task belongs to the window
\* started last, and a new window, the next term's discovery or the end of
\* the call is only reached when no task of an earlier window is left
\* unsettled - within one search term and from one term to the next.
C2_SequentialWindows ==
    /\ \A k \in DOMAIN tasks : tasks[k].win = window
    /\ pc \in {"for_batch", "for_term", "search", "finally", "returned"}
         => tasks = <<>>

\* a task of the second window of the last term has opened its page, after
\* an earlier window settled without a single record
C2_Witness ==
    /\ term = Len(search_terms)
    /\ i > 0
    /\ window >= 3
    /\ \E k \in DOMAIN tasks : tasks[k].st = "open"
    /\ Len(all_results) < window - 1

\* C3 (bounded fan-out): at most batch_size extraction tasks exist, and so at
\* most batch_size detail pages are open, in every state of a scrape call.
C3_BoundedFanOut ==
    /\ Cardinality({k \in DOMAIN tasks : tasks[k].st = "open"}) <= batch_size
    /\ Cardinality({k \in DOMAIN tasks : ~Settled(tasks[k].st)}) <= batch_size

\* batch_size pages are open at once although more URLs than that are to be
\* processed for the term
C3_Witness ==
    /\ Cardinality({k \in DOMAIN tasks : tasks[k].st = "open"}) = batch_size
    /\ Len(places_to_process) > batch_size
    /\ term = Len(search_terms)

----------------------------------------------------------------------------
(* Properties of the discovery loop, checked under SpecSearch *)

\* C4 (stall termination): once three consecutive scroll iterations have read
\* the same set of links as the collection before them (four equal
\* collections in a row), the loop has terminated at that fourth check - it
\* neither scrolls nor collects again - and the accumulated set is the one the
\* first of the four collections left, whatever max_results is.
C4_StallTermination ==
    /\ (dpc \in {"scroll", "collect"}) => same_run < stall_limit
    /\ same_run <= stall_limit
    /\ same_run >= 1 => place_urls = run_base

\* three repeats were read, the loop stopped as stalled with a non-empty set
\* short of the target
C4_Witness ==
    /\ same_run = stall_limit
    /\ dpc = "close"
    /\ exit_reason = "stalled"
    /\ place_urls # {}
    /\ checks = stall_limit + 1
    /\ max_results = MaxTarget

\* a session never makes more than max_scroll_attempts collections or scrolls,
\* and while it is running some step of it is enabled
C5_Bounded ==
    /\ checks <= max_scroll_attempts
    /\ scroll_attempts <= max_scroll_attempts
    /\ (dpc \in {"collect", "check", "scroll"}) => scroll_attempts < max_scroll_attempts
    /\ pc = "search" => ENABLED Search
    /\ pc \in {"search", "returned", "raised"}

\* C5 (discovery terminates): whatever the surface shows (new links at every
\* iteration included) and whatever max_results is, a session performs at most
\* max_scroll_attempts collections and scrolls and then ends: the call
\* returns its list, or raises when the search page could not be opened.
C5_DiscoveryTerminates ==
    []C5_Bounded /\ <>(pc \in {"returned", "raised"})

\* the loop ran out of attempts: it made max_scroll_attempts collections and
\* was left by the attempts bound
C5_Witness ==
    /\ exit_reason = "attempts"
    /\ checks = max_scroll_attempts
    /\ scroll_attempts = max_scroll_attempts
    /\ pc = "returned"

C7_OverCollection ==
    exit_reason = "satisfied" => 2 * Cardinality(place_urls) >= 3 * max_results


----------------------------------------------------------------------------
(* Properties of enrich_from_website, checked under SpecEnrich *)

\* the elements of a list
Range(lst) == {lst[k] : k \in DOMAIN lst}

ListKinds == {"emails", "phones", "addresses"}

CapOf(kind) ==
    CASE kind = "emails" -> max_emails
      [] kind = "phones" -> max_phones
      [] OTHER -> max_addresses

FetchedContent(kind) ==
    (IF home.fetch = "ok" THEN home.page[kind] ELSE {})
    \cup (IF contact.fetch = "ok" THEN contact.page[kind] ELSE {})

\* the social links of the pages fetched with status 200, the home page first
FetchedSocial ==
    LET hm == IF home.fetch = "ok" THEN home.page.socialMedia ELSE EmptyMap
        cm == IF contact.fetch = "ok" THEN contact.page.socialMedia ELSE EmptyMap
    IN  [p \in DOMAIN hm \cup DOMAIN cm |-> IF p \in DOMAIN hm THEN hm[p] ELSE cm[p]]

NoHeuristicRaised == home.raised = "none" /\ contact.raised = "none"

\* C9 (enrichment never raises): whichever stage fails - the home page or the
\* contact page answering with a status other than 200 or not at all, the
\* search for a contact page failing - the call returns, and it returns the
\* data of the pages that were fetched and nothing else: a page that failed
\* contributes nothing, the other page contributes what it holds (up to the
\* caps), and what was merged before a failure is still returned.
C9_FailureContainment ==
    /\ (entry = "enrich" /\ epc # "returned") => ENABLED Enrich
    /\ epc = "returned" =>
        /\ \A kind \in ListKinds :
             /\ Range(result[kind]) \subseteq FetchedContent(kind)
             /\ NoHeuristicRaised =>
                  IF Cardinality(FetchedContent(kind)) > CapOf(kind)
                  THEN Len(result[kind]) >= CapOf(kind)
                  ELSE Range(result[kind]) = FetchedContent(kind)
        /\ DOMAIN result.socialMedia \subseteq DOMAIN FetchedSocial
        /\ NoHeuristicRaised => result.socialMedia = FetchedSocial
        /\ (contact.fetch = "none") <=> (result.contactPageUrl = "None")

\* C9 happens: the home page answered with a status other than 200, a contact
\* page was found and fetched, and the result holds the contact page's
\* e-mail addresses and none of those only the home page's body held
C9_Witness ==
    /\ epc = "returned"
    /\ home.fetch = "non200"
    /\ contact.fetch = "ok"
    /\ home.page.emails \ contact.page.emails # {}
    /\ result.emails # <<>>
    /\ Range(result.emails) = contact.page.emails

\* C10 (sub-heuristic isolation): when exactly one of the four heuristics
\* raises on a page, that heuristic contributes nothing and each of the other
\* three contributes what it finds, whichever heuristic it is.  Stated for a
\* call that fetched the home page only.
C10_HeuristicIsolation ==
    (epc = "returned" /\ finalized /\ home.fetch = "ok" /\ contact.fetch = "none"
       /\ home.raised # "none") =>
        /\ \A kind \in ListKinds :
             Range(result[kind]) =
                IF kind = home.raised THEN {} ELSE home.page[kind]
        /\ result.socialMedia =
             IF home.raised = "socialMedia" THEN EmptyMap ELSE home.page.socialMedia


\* a list without repetitions
NoRepeats(lst) == \A a, b \in DOMAIN lst : a # b => lst[a] # lst[b]

\* C11 (idempotent merge): when the contact page gave the same extraction
\* output as the home page, so that the same output was merged twice, the
\* finalised lists are what one merge gives: the distinct elements of the
\* output, each once, up to the cap; and the social links are the output's.
C11_IdempotentMerge ==
    (epc = "returned" /\ finalized /\ contact.fetch # "none"
       /\ contact_data = main_page_data) =>
        /\ \A kind \in ListKinds :
             /\ Range(result[kind]) \subseteq BagToSet(main_page_data[kind])
             /\ NoRepeats(result[kind])
             /\ Len(result[kind]) =
                  Min(CapOf(kind), Cardinality(BagToSet(main_page_data[kind])))
        /\ result.socialMedia = main_page_data.socialMedia

\* C11 happens: both pages gave the same two e-mail addresses, phone and
\* address and the same social link, and the call finalised
C11_Witness ==
    /\ epc = "returned" /\ finalized
    /\ home.fetch = "ok" /\ contact.fetch = "ok"
    /\ contact_data = main_page_data
    /\ BagToSet(main_page_data.emails) = {1, 2}
    /\ BagToSet(main_page_data.phones) # {}
    /\ BagToSet(main_page_data.addresses) # {}
    /\ DOMAIN main_page_data.socialMedia # {}
    /\ Range(result.emails) = {1, 2}


\* C12 (first match wins): a platform the home page's output holds keeps the
\* home page's URL when the contact page is merged; the contact page's output
\* only adds the platforms that were absent.
C12_FirstMatchWins ==
    (epc \in {"finalize", "returned"} /\ contact.fetch # "none") =>
        LET merged == IF epc = "returned" THEN result.socialMedia
                      ELSE enrichment_data.socialMedia
        IN  /\ DOMAIN merged =
                 DOMAIN main_page_data.socialMedia \cup DOMAIN contact_data.socialMedia
            /\ \A p \in DOMAIN main_page_data.socialMedia :
                 merged[p] = main_page_data.socialMedia[p]
            /\ \A p \in DOMAIN contact_data.socialMedia \ DOMAIN main_page_data.socialMedia :
                 merged[p] = contact_data.socialMedia[p]

\* C12 happens: both pages link a Facebook page, a different one each, and
\* the contact page also links an Instagram profile; the result keeps the
\* home page's Facebook link and gains the Instagram one
C12_Witness ==
    /\ epc = "returned"
    /\ "facebook" \in DOMAIN main_page_data.socialMedia
    /\ "facebook" \in DOMAIN contact_data.socialMedia
    /\ main_page_data.socialMedia["facebook"] # contact_data.socialMedia["facebook"]
    /\ "instagram" \in DOMAIN contact_data.socialMedia
    /\ result.socialMedia["facebook"] = main_page_data.socialMedia["facebook"]
    /\ "instagram" \in DOMAIN result.socialMedia


\* the contact page is one of the conventional paths
FoundByPath ==
    \E k \in DOMAIN contact_paths : enrichment_data.contactPageUrl = contact_paths[k]

\* C13 (discovery order): the conventional paths are probed in list order and
\* before the home page is fetched for its anchors.  When a path has answered
\* 200 it is the contact page, it is the first path in list order that was
\* asked and answered 200 (every path before it was probed and did not), no
\* path after it is probed, and the home page is never fetched for anchors,
\* whatever anchor it holds.  The anchors are scanned only when all paths have
\* been probed and none answered 200.
C13_DiscoveryOrder ==
    /\ probe <= Len(contact_paths)
    /\ epc = "probe" => (responded = 0 /\ ~anchor_scanned /\ probe < Len(contact_paths))
    /\ responded # 0 =>
         /\ enrichment_data.contactPageUrl = contact_paths[responded]
         /\ probe = responded
         /\ ~anchor_scanned
    /\ anchor_scanned => (responded = 0 /\ probe = Len(contact_paths))
    /\ FoundByPath => responded # 0
    /\ (enrichment_data.contactPageUrl \notin {"None"} /\ ~FoundByPath) =>
         (anchor_scanned /\ enrichment_data.contactPageUrl = anchor_href)

\* C13 happens: the home page holds an anchor to another contact URL, the
\* first two paths did not answer 200, the third did and is the contact page
C13_Witness ==
    /\ epc = "returned"
    /\ anchor_href # "None"
    /\ responded = 3
    /\ result.contactPageUrl = contact_paths[3]
    /\ result.contactPageUrl # anchor_href
    /\ ~anchor_scanned


----------------------------------------------------------------------------
(* Properties of scrape's progress reporting and failure handling,          *)
(* checked under SpecScrape                                                 *)

\* C14 (progress-sink containment): an exception raised by the progress
\* callback, at whichever of its invocations, is caught: it is never pending
\* in scrape and never reaches the caller of scrape.
C14_SinkContainment ==
    exc # "sink"


\* C15 (session-level failures are fatal): when the context cannot be created
\* the call raises, and when the navigation to the search surface has failed
\* the call goes on to raise: it does not go on to the window loop, to the
\* next term or to its return with the empty discovery set.
C15_SessionFatal ==
    /\ exc = "context" => pc = "raised"
    /\ (entry = "scrape" /\ nav_failed) => pc \in {"search", "finally_exc", "raised"}


\* C16 (resource release): the search page is open only while its discovery
\* session runs, a detail page only while its task runs - a task that has
\* returned, returned nothing or raised has no page open.  The context, once
\* created, is closed exactly once whichever way scrape ends, and not before.
\* When scrape has returned or raised, no page and no context is open.
C16_ResourceRelease ==
    /\ pc # "search" => ~search_page
    /\ \A k \in DOMAIN tasks :
         /\ Settled(tasks[k].st) => ~tasks[k].page
         /\ tasks[k].page => context = "open"
    /\ search_page => context = "open"
    /\ context_closes = (IF context = "closed" THEN 1 ELSE 0)
    /\ pc \in {"for_term", "search", "for_batch", "gather", "sleep",
               "finally", "finally_exc"} => context = "open"
    /\ pc \in {"returned", "raised"} =>
         /\ context # "open"
         /\ ~search_page
         /\ \A k \in DOMAIN tasks : ~tasks[k].page
         /\ exc \notin {"context"} /\ ~(exc = "sink" /\ term = 0) => context = "closed"

\* C16 happens: scrape extracted records for the first term, then failed to
\* open the search page of the second; the context was closed once
C16_Witness ==
    /\ pc = "raised"
    /\ exc = "page"
    /\ term = 2
    /\ Len(all_results) >= 1
    /\ context = "closed"
    /\ context_closes = 1


----------------------------------------------------------------------------
(* Properties of the returned lists *)

\* C17 (output order): the list a discovery session returns, from which the
\* records of the term are extracted in list order, holds its URLs in the
\* order in which the collections first found them: a URL found by an earlier
\* collection never comes after a URL found by a later one.
C17_DiscoveryOrder ==
    (entry = "search" /\ pc = "returned") =>
        \A a, b \in DOMAIN result :
            a < b => first_seen[result[a]] <= first_seen[result[b]]


\* C18 (result size bound): the list scrape returns never holds more records
\* than max_results, whatever the number of search terms.
C18_ResultSizeBound ==
    (entry = "scrape" /\ pc = "returned") => Len(result) <= max_results

\* C19 (no duplicate records): the list scrape returns holds at most one
\* record per place URL, also when the discovery sets of several search terms
\* overlap.
C19_NoDuplicateRecords ==
    (entry = "scrape" /\ pc = "returned") =>
        \A a, b \in DOMAIN result : a # b => result[a] # result[b]


\* C20 (determinism of the enrichment output): what step 3 returns is
\* determined by the content that was merged: any two results it can produce
\* for the same accumulator hold the same e-mail addresses, phones and
\* addresses, and the same first e-mail address.
C20_DeterministicOutput ==
    epc = "finalize" =>
        \A r1, r2 \in Finalizations(enrichment_data) :
            /\ \A kind \in ListKinds : Range(r1[kind]) = Range(r2[kind])
            /\ r1.emails # <<>> => r1.emails[1] = r2.emails[1]

(***************************************************************************)
(* The email heuristic of the enrichment service.  Strings are sequences   *)
(* of one-character strings.                                               *)
(***************************************************************************)
ascii_lowercase ==
    <<"a", "b", "c", "d", "e", "f", "g", "h", "i", "j", "k", "l", "m",
      "n", "o", "p", "q", "r", "s", "t", "u", "v", "w", "x", "y", "z">>

ascii_uppercase ==
    <<"A", "B", "C", "D", "E", "F", "G", "H", "I", "J", "K", "L", "M",
      "N", "O", "P", "Q", "R", "S", "T", "U", "V", "W", "X", "Y", "Z">>

digits == {"0", "1", "2", "3", "4", "5", "6", "7", "8", "9"}

\* str.lower()
Lower(s) ==
    [k \in DOMAIN s |->
        IF \E j \in DOMAIN ascii_uppercase : ascii_uppercase[j] = s[k]
        THEN ascii_lowercase[CHOOSE j \in DOMAIN ascii_uppercase :
                                 ascii_uppercase[j] = s[k]]
        ELSE s[k]]

Elems(s) == {s[k] : k \in DOMAIN s}

\* p in s
Contains(s, p) ==
    \E k \in 1..(Len(s) - Len(p) + 1) : SubSeq(s, k, k + Len(p) - 1) = p

\* s.find(p), 1-based, for a p that occurs in s
Find(s, p) ==
    CHOOSE k \in 1..(Len(s) - Len(p) + 1) :
        /\ SubSeq(s, k, k + Len(p) - 1) = p
        /\ \A j \in 1..(k - 1) : SubSeq(s, j, j + Len(p) - 1) # p

StartsWith(s, p) == Len(s) >= Len(p) /\ SubSeq(s, 1, Len(p)) = p

EndsWith(s, p) ==
    Len(s) >= Len(p) /\ SubSeq(s, Len(s) - Len(p) + 1, Len(s)) = p

\* s.replace(p, '')
RECURSIVE Remove(_, _)
Remove(s, p) ==
    IF ~Contains(s, p) THEN s
    ELSE SubSeq(s, 1, Find(s, p) - 1)
             \o Remove(SubSeq(s, Find(s, p) + Len(p), Len(s)), p)

\* s.split(c)
RECURSIVE Split(_, _)
Split(s, c) ==
    IF ~Contains(s, c) THEN <<s>>
    ELSE <<SubSeq(s, 1, Find(s, c) - 1)>>
             \o Split(SubSeq(s, Find(s, c) + Len(c), Len(s)), c)

\* s.strip()
RECURSIVE Strip(_)
Strip(s) ==
    IF s # <<>> /\ Head(s) = " " THEN Strip(Tail(s))
    ELSE IF s # <<>> /\ s[Len(s)] = " " THEN Strip(SubSeq(s, 1, Len(s) - 1))
    ELSE s

excluded_email_patterns == <<
    <<"e", "x", "a", "m", "p", "l", "e", ".", "c", "o", "m">>,
    <<"y", "o", "u", "r", "d", "o", "m", "a", "i", "n", ".", "c", "o", "m">>,
    <<"d", "o", "m", "a", "i", "n", ".", "c", "o", "m">>,
    <<"t", "e", "s", "t", ".", "c", "o", "m">>,
    <<"e", "m", "a", "i", "l", ".", "c", "o", "m">>,
    <<"n", "o", "r", "e", "p", "l", "y">>,
    <<"n", "o", "-", "r", "e", "p", "l", "y">>,
    <<"d", "o", "n", "o", "t", "r", "e", "p", "l", "y">>,
    <<"p", "r", "i", "v", "a", "c", "y", "@">>,
    <<"l", "e", "g", "a", "l", "@">>,
    <<"a", "b", "u", "s", "e", "@">>,
    <<"p", "o", "s", "t", "m", "a", "s", "t", "e", "r", "@">>,
    <<"a", "d", "m", "i", "n", "@">>,
    <<"w", "e", "b", "m", "a", "s", "t", "e", "r", "@">>,
    <<"i", "n", "f", "o", "@", "e", "x", "a", "m", "p", "l", "e">>,
    <<"c", "o", "n", "t", "a", "c", "t", "@", "e", "x", "a", "m", "p", "l", "e">>,
    <<"s", "u", "p", "p", "o", "r", "t", "@", "e", "x", "a", "m", "p", "l", "e">> >>

spam_tlds == <<<<".", "t", "k">>, <<".", "m", "l">>, <<".", "g", "a">>, <<".", "c", "f">>, <<".", "g", "q">>>>

is_valid_email(email) ==
    IF email = <<>> \/ Len(email) < 5 THEN FALSE
    ELSE IF ~Contains(email, <<"@">>)
            \/ ~Contains(Split(email, <<"@">>)[2], <<".">>) THEN FALSE
    ELSE IF Len(email) > 100 THEN FALSE
    ELSE TRUE

is_business_email_CaseSensitive(email) ==
    /\ \A k \in DOMAIN excluded_email_patterns :
           ~Contains(email, excluded_email_patterns[k])
    /\ \A k \in DOMAIN spam_tlds : ~EndsWith(email, spam_tlds[k])

is_business_email(email) ==
    LET email_lower == Lower(email)
    IN  IF \E k \in DOMAIN excluded_email_patterns :
               Contains(email_lower, excluded_email_patterns[k]) THEN FALSE
        ELSE IF \E k \in DOMAIN spam_tlds :
                    EndsWith(email_lower, spam_tlds[k]) THEN FALSE
        ELSE TRUE

\* email_pattern matches the whole of e:
\* \b[A-Za-z0-9._%+-]+@[A-Za-z0-9.-]+\.[A-Z|a-z]{2,}\b
email_pattern(e) ==
    LET letters == Elems(ascii_lowercase) \cup Elems(ascii_uppercase)
        word    == letters \cup digits \cup {"_"}
        local   == letters \cup digits \cup {".", "_", "%", "+", "-"}
        domain  == letters \cup digits \cup {".", "-"}
        tld     == letters \cup {"|"}
    IN  \E at \in 2..Len(e) : \E dot \in (at + 2)..(Len(e) - 2) :
            /\ e[1] \in word /\ e[Len(e)] \in word
            /\ \A k \in 1..(at - 1) : e[k] \in local
            /\ e[at] = "@"
            /\ \A k \in (at + 1)..(dot - 1) : e[k] \in domain
            /\ e[dot] = "."
            /\ \A k \in (dot + 1)..Len(e) : e[k] \in tld

\* an address longer than 100 characters
LongAddress == [k \in 1..95 |-> "a"] \o <<"@", "b", ".", "c", "o", "m">>

\* the addresses a page may carry
AddressTexts == {
    <<"a", "d", "m", "i", "n", "@", "c", "o", "m", "p", "a", "n", "y", ".", "c", "o", "m">>,
    <<"n", "o", "r", "e", "p", "l", "y", "@", "s", "h", "o", "p", ".", "i", "o">>,
    <<"t", "e", "s", "t", "@", "e", "x", "a", "m", "p", "l", "e", ".", "c", "o", "m">>,
    <<"s", "a", "l", "e", "s", "@", "a", "c", "m", "e", ".", "i", "o">>,
    <<"S", "a", "l", "e", "s", "@", "A", "c", "m", "e", ".", "I", "O">>,
    <<"A", "D", "M", "I", "N", "@", "c", "o", "r", "p", ".", "o", "r", "g">>,
    <<"b", "o", "b", "@", "f", "r", "e", "e", ".", "t", "k">>,
    <<"c", "e", "o", "@", "m", "y", "d", "o", "m", "a", "i", "n", ".", "c", "o", "m">>,
    <<"h", "i", "@", "t", "k", ".", "c", "o">>,
    <<"a", "@", "b">>,
    <<"x", ".", "y", "@", "z">>,
    <<"j", "o", "e", "@", "l", "o", "c", "a", "l", "h", "o", "s", "t">>,
    <<"a", "@", "b", "@", "c", ".", "i", "o">>,
    <<>>,
    LongAddress }

mailto == <<"m", "a", "i", "l", "t", "o", ":">>

subject_query == <<"?", "s", "u", "b", "j", "e", "c", "t", "=", "h", "i">>

\* the href values an anchor may carry: a mailto link, with or without a
\* query and padding, or an ordinary link
Hrefs ==
    {mailto \o a : a \in AddressTexts}
    \cup {mailto \o <<" ">> \o a \o subject_query :
             a \in {x \in AddressTexts : x # Lower(x)}}
    \cup {<<"h", "t", "t", "p", "s", ":", "/", "/", "s", "i", "t", "e", ".", "e", "x", "a", "m", "p", "l", "e", "/", "a", "b", "o", "u", "t">>}

\* what findall returns: the substrings that match email_pattern
Matches == {a \in AddressTexts : email_pattern(a)}

AtMostOne(S) == {<<>>} \cup {<<x>> : x \in S}

Admitted_ValidOnly(found) == {e \in Elems(found) : is_valid_email(e)}

\* if self._is_valid_email(email) and self._is_business_email(email)
Admitted(found) ==
    {e \in Elems(found) : is_valid_email(e) /\ is_business_email(e)}

\* the calls of _is_business_email made while filtering found
Calls(found, via) ==
    {[email |-> e, via |-> via, business |-> is_business_email(e)] :
        e \in {x \in Elems(found) : is_valid_email(x)}}

M_Mailto ==
    /\ entry = "emails" /\ mpc = "mailto"
    /\ emails' = emails \cup
          {Lower(email) : email \in
              {x \in {Strip(Split(Remove(h, mailto), <<"?">>)[1]) :
                         h \in {g \in Elems(hrefs) : StartsWith(g, mailto)}} :
                  is_valid_email(x)}}
    /\ mpc' = "text"
    /\ UNCHANGED <<entry, core_vars, task_vars, proxy_vars, social_vars, hrefs, text_emails, source_emails,
                   section_emails, emails_returned, filter_log>>

M_Text ==
    /\ entry = "emails" /\ mpc = "text"
    /\ emails' = emails \cup {Lower(e) : e \in Admitted(text_emails)}
    /\ filter_log' = filter_log \cup Calls(text_emails, "text")
    /\ mpc' = "html"
    /\ UNCHANGED <<entry, core_vars, task_vars, proxy_vars, social_vars, hrefs, text_emails, source_emails,
                   section_emails, emails_returned>>

M_Html ==
    /\ entry = "emails" /\ mpc = "html"
    /\ emails' = emails \cup {Lower(e) : e \in Admitted(source_emails)}
    /\ filter_log' = filter_log \cup Calls(source_emails, "html")
    /\ mpc' = "sections"
    /\ UNCHANGED <<entry, core_vars, task_vars, proxy_vars, social_vars, hrefs, text_emails, source_emails,
                   section_emails, emails_returned>>

M_Sections ==
    /\ entry = "emails" /\ mpc = "sections"
    /\ emails' = emails \cup {Lower(e) : e \in Admitted(section_emails)}
    /\ filter_log' = filter_log \cup Calls(section_emails, "section")
    /\ mpc' = "return"
    /\ UNCHANGED <<entry, core_vars, task_vars, proxy_vars, social_vars, hrefs, text_emails, source_emails,
                   section_emails, emails_returned>>

\* return list(emails): the order of a set is not fixed
M_Return ==
    /\ entry = "emails" /\ mpc = "return"
    /\ emails_returned' \in Orderings(emails)
    /\ mpc' = "done"
    /\ UNCHANGED <<entry, core_vars, task_vars, proxy_vars, social_vars, hrefs, text_emails, source_emails,
                   section_emails, emails, filter_log>>

ExtractEmails == M_Mailto \/ M_Text \/ M_Html \/ M_Sections \/ M_Return

InitIdle ==
    /\ max_results = 0
    /\ progress_callback = "None"
    /\ pc = "idle"
    /\ dpc = "idle"
    /\ InitScrapeVars
    /\ InitSearchVars
    /\ InitEnrichVars
    /\ result = <<>>
    /\ loop_messages = 0
    /\ InitWrapperVars

\* a call of _extract_emails(soup, html) on a page with at most one anchor
\* and at most one address in its text and in its markup; the text of a
\* contact section is part of the text of the page
InitEmails ==
    /\ entry = "emails"
    /\ InitIdle
    /\ hrefs \in AtMostOne(Hrefs)
    /\ text_emails \in AtMostOne(Matches)
    /\ source_emails \in AtMostOne(Matches)
    /\ section_emails \in {<<>>, text_emails}
    /\ mpc = "mailto"
    /\ emails = {}
    /\ emails_returned = <<>>
    /\ filter_log = {}
    /\ InitTaskVars
    /\ InitProxyVars
    /\ InitSocialVars

SpecEmails == InitEmails /\ [][ExtractEmails]_vars

----------------------------------------------------------------------------
(* Properties of the email heuristic, checked under SpecEmails *)

admin_at_company ==
    <<"a", "d", "m", "i", "n", "@", "c", "o", "m", "p", "a", "n", "y", ".", "c", "o", "m">>

noreply_at_shop ==
    <<"n", "o", "r", "e", "p", "l", "y", "@", "s", "h", "o", "p", ".", "i", "o">>

test_at_example ==
    <<"t", "e", "s", "t", "@", "e", "x", "a", "m", "p", "l", "e", ".", "c", "o", "m">>

sales_at_acme ==
    <<"s", "a", "l", "e", "s", "@", "a", "c", "m", "e", ".", "i", "o">>

\* the address, written in lower case, contains an excluded pattern or ends
\* in a low-trust top-level domain
Excluded(e) ==
    \/ \E p \in Elems(excluded_email_patterns) : Contains(Lower(e), p)
    \/ \E t \in Elems(spam_tlds) : EndsWith(Lower(e), t)

\* C21: _is_business_email rejects exactly the addresses that contain an
\* excluded placeholder-domain or role-account pattern or end in one of the
\* five low-trust top-level domains; admin@company.com, noreply@shop.io and
\* test@example.com are rejected and sales@acme.io is accepted
C21_BusinessEmailFilter ==
    \A c \in filter_log :
        /\ c.business = ~Excluded(c.email)
        /\ c.email \in {admin_at_company, noreply_at_shop, test_at_example}
               => ~c.business
        /\ c.email = sales_at_acme => c.business

\* the filter has accepted sales@acme.io and rejected one of the three
\* named addresses on the same page
C21_Witness ==
    /\ mpc = "done"
    /\ \E c \in filter_log : c.email = sales_at_acme /\ c.business
    /\ \E c \in filter_log :
           c.email \in {admin_at_company, noreply_at_shop, test_at_example}
           /\ ~c.business

\* some anchor of the page is a mailto link to the address a
LinkedByMailto(a) ==
    \E h \in Elems(hrefs) :
        h \in {mailto \o a, mailto \o <<" ">> \o a \o subject_query}

\* the address a was found in the visible text, the raw markup or a contact
\* section
FoundInPage(a) ==
    a \in Elems(text_emails) \cup Elems(source_emails) \cup Elems(section_emails)

\* C22: every email the heuristic returns is lower-case and passes
\* _is_valid_email; the address of a mailto link is admitted without the
\* business-email filter; an address found only in the visible text, the raw
\* markup or a contact section is admitted only if it passes
\* _is_business_email
C22_EmailAdmission ==
    /\ \A e \in emails : e = Lower(e) /\ is_valid_email(e)
    /\ mpc = "done" =>
        /\ Elems(emails_returned) = emails
        /\ \A a \in AddressTexts :
              LinkedByMailto(a) /\ is_valid_email(a)
                  => Lower(a) \in Elems(emails_returned)
        /\ \A a \in AddressTexts :
              /\ FoundInPage(a)
              /\ ~\E b \in AddressTexts : LinkedByMailto(b) /\ Lower(b) = Lower(a)
              /\ Lower(a) \in Elems(emails_returned)
              => is_business_email(a)

\* a role address written in capitals came back in lower case from a mailto
\* link, while a role address found in the text was left out
C22_Witness ==
    /\ mpc = "done"
    /\ \E a \in AddressTexts :
          /\ LinkedByMailto(a) /\ a # Lower(a) /\ ~is_business_email(a)
          /\ Lower(a) \in Elems(emails_returned)
    /\ \E a \in AddressTexts :
          /\ FoundInPage(a) /\ ~is_business_email(a)
          /\ Lower(a) \notin Elems(emails_returned)

----------------------------------------------------------------------------
(* _extract_place_details_optimized  (google_maps_optimized.py:249-378) *)

\* query_selector returned None
NoElement == <<"no element">>

\* the aria-label of the rating element: a rating, a rating of zero, a label
\* without a number, an empty label, and a label whose first run of digits
\* and dots is not a number
RatingLabels ==
    { NoElement, <<"4", ".", "5", " ", "s", "t", "a", "r", "s">>, <<"0", " ", "s", "t", "a", "r", "s">>, <<"R", "a", "t", "e", "d">>, <<>>, <<".", ".", ".">> }

\* the aria-label of the reviews element
ReviewsLabels ==
    { NoElement, <<"9", ",", "9", "9", "9", " ", "r", "e", "v", "i", "e", "w", "s">>, <<"0", " ", "r", "e", "v", "i", "e", "w", "s">>, <<"N", "o", " ", "r", "e", "v", "i", "e", "w", "s">>, <<>>, <<",">> }

\* the href of the website element: no element, no attribute, an empty
\* attribute, a URL
WebsiteHrefs == {"no element", "None", "", "https://site.example"}

string_digits == <<"0", "1", "2", "3", "4", "5", "6", "7", "8", "9">>

\* re.search(r'([class]+)', s).group(1): the first longest run of characters
\* of the class; <<>> when there is no match
FirstRun(s, class) ==
    IF \A k \in DOMAIN s : s[k] \notin class THEN <<>>
    ELSE LET a == CHOOSE k \in DOMAIN s :
                      s[k] \in class /\ \A j \in 1..(k - 1) : s[j] \notin class
             b == CHOOSE k \in a..Len(s) :
                      /\ \A j \in a..k : s[j] \in class
                      /\ k = Len(s) \/ s[k + 1] \notin class
         IN  SubSeq(s, a, b)

RECURSIVE ParseDigits(_)
ParseDigits(ds) ==
    IF ds = <<>> THEN 0
    ELSE 10 * ParseDigits(SubSeq(ds, 1, Len(ds) - 1))
         + ((CHOOSE k \in DOMAIN string_digits : string_digits[k] = ds[Len(ds)]) - 1)

\* float(g) raises ValueError
FloatFails(g) ==
    \/ Len(Split(g, <<".">>)) > 2
    \/ \A k \in DOMAIN g : g[k] = "."

\* float(g), in tenths, for a g with at most one decimal
ToFloat(g) ==
    LET parts == Split(g, <<".">>)
    IN  10 * ParseDigits(parts[1])
        + (IF Len(parts) = 2 /\ parts[2] # <<>> THEN ParseDigits(<<parts[2][1]>>) ELSE 0)

\* int(g.replace(',', '')) raises ValueError
IntFails(g) == Remove(g, <<",">>) = <<>>

ToInt(g) == ParseDigits(Remove(g, <<",">>))

\* math.log(n, 10) for a power of ten
Log10(n) == CHOOSE k \in 0..6 : 10 ^ k = n

\* lines 283-290
RatingGroup == FirstRun(rating_label, digits \cup {"."})

\* lines 293-300
ReviewsGroup == FirstRun(reviews_label, digits \cup {","})

Truthy(label) == label # NoElement /\ label # <<>>

\* a test of the values instead of the keys
HasKeys_Truthy(d) ==
    /\ "rating" \in DOMAIN d /\ d["rating"] # 0
    /\ "reviewsCount" \in DOMAIN d /\ d["reviewsCount"] # 0

\* line 367: if 'rating' in place_data and 'reviewsCount' in place_data
HasKeys(d) == "rating" \in DOMAIN d /\ "reviewsCount" \in DOMAIN d

\* lines 367-369: round(rating * log10(reviewsCount + 1), 2), in hundredths
WithTotalScore(d) ==
    IF HasKeys(d)
    THEN d @@ ("totalScore" :> d["rating"] * 10 * Log10(d["reviewsCount"] + 1))
    ELSE d

ContactPageArg_Default == TRUE

\* line 330: check_contact_page=False
ContactPageArg == FALSE

\* lines 373-378 and 371, 377-378: the task returns what (None or the record)
\* after closing its page; a close that raises replaces the return value
TaskReturns(what, failure) ==
    \E closed \in BOOLEAN :
        /\ tpc' = "returned"
        /\ task_result' = IF closed THEN what ELSE "raised"
        /\ task_failure' = IF closed THEN failure ELSE "close"

\* line 258: the page is opened outside the try block
K_NewPage ==
    /\ entry = "task" /\ tpc = "new_page"
    /\ \E ok \in BOOLEAN :
         IF ok THEN /\ tpc' = "goto"
                    /\ UNCHANGED <<task_result, task_failure>>
         ELSE /\ tpc' = "returned"
              /\ task_result' = "raised"
              /\ task_failure' = "new_page"
    /\ UNCHANGED <<entry, core_vars, email_vars, proxy_vars, social_vars, enrich_contacts, rating_label,
                   reviews_label, website_href, place_data, enrich_calls>>

\* lines 261-269
K_Goto ==
    /\ entry = "task" /\ tpc = "goto"
    /\ \E ok \in BOOLEAN :
         IF ok THEN /\ tpc' = "fields"
                    /\ place_data' = ("url" :> "url") @@ ("placeId" :> "id")
                    /\ UNCHANGED <<task_result, task_failure>>
         ELSE /\ TaskReturns("None", "goto")
              /\ UNCHANGED place_data
    /\ UNCHANGED <<entry, core_vars, email_vars, proxy_vars, social_vars, enrich_contacts, rating_label,
                   reviews_label, website_href, enrich_calls>>

\* lines 271-315: title, category, rating, reviews count, address, phone
K_Fields ==
    /\ entry = "task" /\ tpc = "fields"
    /\ \E ok \in BOOLEAN :
         IF /\ ok
            /\ ~(Truthy(rating_label) /\ RatingGroup # <<>> /\ FloatFails(RatingGroup))
            /\ ~(Truthy(reviews_label) /\ ReviewsGroup # <<>> /\ IntFails(ReviewsGroup))
         THEN /\ tpc' = "website"
              /\ place_data' =
                    place_data
                    @@ (IF Truthy(rating_label) /\ RatingGroup # <<>>
                        THEN "rating" :> ToFloat(RatingGroup) ELSE <<>>)
                    @@ (IF Truthy(reviews_label) /\ ReviewsGroup # <<>>
                        THEN "reviewsCount" :> ToInt(ReviewsGroup) ELSE <<>>)
              /\ UNCHANGED <<task_result, task_failure>>
         ELSE /\ TaskReturns("None", "fields")
              /\ UNCHANGED place_data
    /\ UNCHANGED <<entry, core_vars, email_vars, proxy_vars, social_vars, enrich_contacts, rating_label,
                   reviews_label, website_href, enrich_calls>>

\* lines 317-333: the website element; enrich_from_website is called with
\* the href
K_Website ==
    /\ entry = "task" /\ tpc = "website"
    /\ \E ok \in BOOLEAN :
         IF ~ok
         THEN /\ TaskReturns("None", "website")
              /\ UNCHANGED <<place_data, enrich_calls, enrich_args, epc>>
         ELSE /\ UNCHANGED <<task_result, task_failure>>
              /\ place_data' =
                    IF website_href = "no element" THEN place_data
                    ELSE place_data @@ ("website" :> website_href)
              /\ IF /\ website_href # "no element"
                    /\ enrich_contacts
                    /\ website_href \notin {"None", ""}
                 THEN /\ enrich_calls' = Append(enrich_calls, ContactPageArg)
                      /\ website_url' = website_href
                      /\ check_contact_page' = ContactPageArg
                      /\ epc' = "start"
                      /\ tpc' = "enriching"
                      /\ UNCHANGED <<focus, anchor_href>>
                 ELSE /\ tpc' = "rest"
                      /\ UNCHANGED <<enrich_calls, enrich_args, epc>>
    /\ UNCHANGED <<entry, max_results, progress_callback, scrape_vars,
                   search_vars, result, loop_messages, wrapper_vars, email_vars, proxy_vars,
                   social_vars,
                   enrich_contacts,
                   rating_label, reviews_label, website_href,
                   enrichment_data, main_page_data, contact_data, probe,
                   responded, anchor_scanned, home, contact, finalized, absorbed>>

\* lines 335-343: enrich_from_website has returned
K_Enriched ==
    /\ entry = "task" /\ tpc = "enriching" /\ epc = "returned"
    /\ place_data' =
          place_data
          @@ (IF result.emails # <<>> THEN "email" :> result.emails[1] ELSE <<>>)
          @@ (IF Len(result.emails) > 1
              THEN "additionalEmails" :> Tail(result.emails) ELSE <<>>)
          @@ (IF DOMAIN result.socialMedia # {}
              THEN "socialMedia" :> result.socialMedia ELSE <<>>)
    /\ tpc' = "rest"
    /\ UNCHANGED <<entry, core_vars, email_vars, proxy_vars, social_vars, enrich_contacts, rating_label,
                   reviews_label, website_href, task_result, task_failure,
                   enrich_calls>>

\* lines 345-371: opening hours, price level, images, reviews, total score
K_Rest ==
    /\ entry = "task" /\ tpc = "rest"
    /\ \E ok \in BOOLEAN :
         IF ok THEN /\ place_data' = WithTotalScore(place_data)
                    /\ TaskReturns("record", "none")
         ELSE /\ TaskReturns("None", "rest")
              /\ UNCHANGED place_data
    /\ UNCHANGED <<entry, core_vars, email_vars, proxy_vars, social_vars, enrich_contacts, rating_label,
                   reviews_label, website_href, enrich_calls>>

\* the task, and the steps of enrich_from_website it can reach
Task ==
    \/ K_NewPage
    \/ K_Goto
    \/ K_Fields
    \/ K_Website
    \/ K_Enriched
    \/ K_Rest
    \/ (entry = "task" /\ E_Start)
    \/ (entry = "task" /\ E_Main)
    \/ (entry = "task" /\ E_Finalize)

\* one task of a batch, on a place page whose website is of kind focus
InitTask ==
    /\ entry = "task"
    /\ max_results = 0
    /\ progress_callback = "None"
    /\ pc = "idle"
    /\ dpc = "idle"
    /\ InitScrapeVars
    /\ InitSearchVars
    /\ InitEnrichVars
    /\ result = <<>>
    /\ loop_messages = 0
    /\ InitWrapperVars
    /\ focus \in Kinds
    /\ InitEmailVars
    /\ InitProxyVars
    /\ InitSocialVars
    /\ enrich_contacts \in BOOLEAN
    /\ rating_label \in RatingLabels
    /\ reviews_label \in ReviewsLabels
    /\ website_href \in WebsiteHrefs
    /\ tpc = "new_page"
    /\ place_data = <<>>
    /\ task_result = "pending"
    /\ task_failure = "none"
    /\ enrich_calls = <<>>

SpecTask == InitTask /\ [][Task]_vars

----------------------------------------------------------------------------
(* Properties of one extraction task, checked under SpecTask *)

\* C23: the task calls enrich_from_website exactly when enrich_contacts is
\* set and a non-empty website URL was extracted, always with
\* check_contact_page false; no contact page is probed or fetched; and when
\* no step of the task itself fails the record is returned, whatever
\* happened inside the enrichment
C23_EnrichmentGating ==
    /\ enrich_calls # <<>> <=>
          /\ enrich_contacts
          /\ "website" \in DOMAIN place_data
          /\ place_data["website"] \notin {"None", ""}
    /\ Len(enrich_calls) <= 1
    /\ \A k \in DOMAIN enrich_calls : enrich_calls[k] = FALSE
    /\ epc \notin {"find", "probe", "anchor", "contact"}
    /\ probe = 0 /\ ~anchor_scanned /\ contact = NoFetch
    /\ tpc = "returned" /\ task_failure = "none" => task_result = "record"

\* the enricher was called, its fetch of the home page failed, and the task
\* returned the record
C23_Witness ==
    /\ tpc = "returned"
    /\ enrich_calls = <<FALSE>>
    /\ home.fetch = "error"
    /\ task_result = "record"

\* the label of an element carries a number
Numbered(label) ==
    /\ label \notin {NoElement, <<>>}
    /\ \E k \in DOMAIN label : label[k] \in digits

\* C24: a returned record carries totalScore exactly when a rating and a
\* reviews count were both extracted, a rating of 0 and a count of 0
\* included; a record that misses either carries no totalScore
C24_TotalScorePresence ==
    task_result = "record" =>
        /\ "totalScore" \in DOMAIN place_data <=>
              ("rating" \in DOMAIN place_data /\ "reviewsCount" \in DOMAIN place_data)
        /\ "rating" \in DOMAIN place_data <=> Numbered(rating_label)
        /\ "reviewsCount" \in DOMAIN place_data <=> Numbered(reviews_label)

\* a record with a rating of 0 and a reviews count of 0 carries totalScore
C24_Witness ==
    /\ task_result = "record"
    /\ "totalScore" \in DOMAIN place_data
    /\ place_data["rating"] = 0
    /\ place_data["reviewsCount"] = 0
    /\ place_data["totalScore"] = 0

----------------------------------------------------------------------------
(* Progress messages of the discovery loop, checked under SpecSearch *)

\* C25: with a progress callback supplied, the discovery loop passes a
\* progress message to it on every satisfied exit and on every stalled exit
C25_TerminationMessages ==
    (progress_callback # "None" /\ exit_reason \in {"satisfied", "sink_error", "stalled"})
        => loop_messages >= 1

----------------------------------------------------------------------------
(* ProxyManager  (proxy_manager.py) and Proxy  (models.py:9-53) *)

\* the hosts add_proxy is called with, in this order; the id of a Proxy is
\* written as its host
proxy_hosts == <<"a", "b", "c">>

\* lines 172 and 203: the number of recorded outcomes above which a proxy
\* may be deactivated (10 in the source)
min_outcomes == 2

\* the outcomes recorded in the pool
MaxOutcomes == min_outcomes + 1

Sum(f, S) == LET RECURSIVE sum(_)
                 sum(T) == IF T = {} THEN 0
                           ELSE LET x == CHOOSE y \in T : TRUE
                                IN  f[x] + sum(T \ {x})
             IN  sum(S)

Recorded == Sum([k \in DOMAIN proxies |-> proxies[k].success_count + proxies[k].failure_count],
                DOMAIN proxies)

\* the last reading of the clock
MaxTime == 4

\* the response times a health check measures; 0 stands for None
ResponseTimes == {1, 2}

\* models.py:9-24: a new Proxy, without the fields that are only written
\* (last_check, created_at) or never change
NewProxy(id) ==
    [id |-> id, is_active |-> TRUE, success_count |-> 0, failure_count |-> 0,
     last_used |-> 0, response_time |-> 0]

Total(p) == p.success_count + p.failure_count

\* models.py:48-53: get_success_rate() < 50
RateBelowHalf(p) ==
    IF Total(p) = 0 THEN TRUE
    ELSE p.success_count * 100 < 50 * Total(p)

\* a.get_success_rate() < b.get_success_rate(): the rate is 0.0 when
\* nothing is recorded, success_count / total * 100 otherwise
RateLess(a, b) ==
    LET num(p) == IF Total(p) = 0 THEN 0 ELSE p.success_count
        den(p) == IF Total(p) = 0 THEN 1 ELSE Total(p)
    IN  num(a) * den(b) < num(b) * den(a)

RateEqual(a, b) == ~RateLess(a, b) /\ ~RateLess(b, a)

\* line 46: the key of max for quality "best", compared as tuples
BestKeyLess(a, b) ==
    \/ RateLess(a, b)
    \/ RateEqual(a, b) /\ (0 - a.response_time) < (0 - b.response_time)

\* a filter that keeps every proxy
ActiveProxies_All == DOMAIN proxies

\* line 35: active_proxies, as the positions in self.proxies
ActiveProxies == {k \in DOMAIN proxies : proxies[k].is_active}

\* a key that puts the proxies never used last
OlderThan_NoneLast(a, b) ==
    (IF a.last_used = 0 THEN MaxTime + 1 ELSE a.last_used)
    < (IF b.last_used = 0 THEN MaxTime + 1 ELSE b.last_used)

\* line 52: p.last_used or datetime.min
OlderThan(a, b) == a.last_used < b.last_used

\* lines 42-55: max and min return the first of the extreme elements; random
\* returns any
Selections(quality) ==
    CASE quality = "best" ->
           {k \in ActiveProxies :
               /\ \A j \in ActiveProxies : ~BestKeyLess(proxies[k], proxies[j])
               /\ \A j \in ActiveProxies :
                     j < k => BestKeyLess(proxies[j], proxies[k])}
      [] quality = "round-robin" ->
           {k \in ActiveProxies :
               /\ \A j \in ActiveProxies : ~OlderThan(proxies[j], proxies[k])
               /\ \A j \in ActiveProxies :
                     j < k => OlderThan(proxies[k], proxies[j])}
      [] OTHER -> ActiveProxies

\* the latest n elements of seq
TakeLast(seq, n) ==
    IF Len(seq) <= n THEN seq ELSE SubSeq(seq, Len(seq) - n + 1, Len(seq))

\* lines 20-61
GetRotatingProxy ==
    /\ entry = "proxy"
    /\ \E quality \in {"best", "random", "round-robin"} :
         /\ last_call' = quality
         /\ IF proxies = <<>> \/ ActiveProxies = {}
            THEN /\ returned' = "None"
                 /\ rr_run' = <<>>
                 /\ UNCHANGED <<proxies, now>>
            ELSE /\ now < MaxTime
                 /\ \E k \in Selections(quality) :
                      /\ proxies' = [proxies EXCEPT ![k].last_used = now + 1]
                      /\ returned' = proxies[k].id
                      /\ rr_run' =
                            IF quality = "round-robin"
                            THEN TakeLast(Append(rr_run, proxies[k].id),
                                          Cardinality(ActiveProxies))
                            ELSE <<>>
                 /\ now' = now + 1
    /\ UNCHANGED <<entry, core_vars, email_vars, task_vars, social_vars, added>>

\* lines 82-94
AddProxy ==
    /\ entry = "proxy"
    /\ added < Len(proxy_hosts)
    /\ added' = added + 1
    /\ proxies' = Append(proxies, NewProxy(proxy_hosts[added + 1]))
    /\ last_call' = "none" /\ returned' = "None" /\ rr_run' = <<>>
    /\ UNCHANGED <<entry, core_vars, email_vars, task_vars, social_vars, now>>

\* [p for p in self.proxies if p.id != proxy_id]
RECURSIVE Without(_, _)
Without(lst, id) ==
    IF lst = <<>> THEN <<>>
    ELSE IF Head(lst).id = id THEN Without(Tail(lst), id)
    ELSE <<Head(lst)>> \o Without(Tail(lst), id)

\* lines 96-105
RemoveProxy ==
    /\ entry = "proxy"
    /\ \E id \in {proxy_hosts[n] : n \in 1..added} :
         /\ \E k \in DOMAIN proxies : proxies[k].id = id
         /\ proxies' = Without(proxies, id)
    /\ last_call' = "none" /\ returned' = "None" /\ rr_run' = <<>>
    /\ UNCHANGED <<entry, core_vars, email_vars, task_vars, social_vars, now, added>>

\* lines 172 and 203: the proxy is deactivated
Deactivated(p) == RateBelowHalf(p) /\ Total(p) > min_outcomes

\* lines 189-194
MarkProxySuccess ==
    /\ entry = "proxy"
    /\ now < MaxTime
    /\ \E k \in DOMAIN proxies :
         /\ Recorded < MaxOutcomes
         /\ proxies' = [proxies EXCEPT
                           ![k].success_count = @ + 1,
                           ![k].last_used = now + 1]
    /\ now' = now + 1
    /\ last_call' = "none" /\ returned' = "None" /\ rr_run' = <<>>
    /\ UNCHANGED <<entry, core_vars, email_vars, task_vars, social_vars, added>>

\* the failure is counted and the deactivation rule applied
Failed(p) ==
    LET q == [p EXCEPT !.failure_count = @ + 1]
    IN  [q EXCEPT !.is_active = IF Deactivated(q) THEN FALSE ELSE @]

\* lines 196-205
MarkProxyFailure ==
    /\ entry = "proxy"
    /\ \E k \in DOMAIN proxies :
         /\ Recorded < MaxOutcomes
         /\ proxies' = [proxies EXCEPT ![k] = Failed(@)]
    /\ last_call' = "none" /\ returned' = "None" /\ rr_run' = <<>>
    /\ UNCHANGED <<entry, core_vars, email_vars, task_vars, social_vars, now, added>>

\* lines 134-177: the test request answers 200, or anything else happens
CheckProxyHealth ==
    /\ entry = "proxy"
    /\ \E k \in DOMAIN proxies :
         /\ Recorded < MaxOutcomes
         /\ \E ok \in BOOLEAN : \E rt \in ResponseTimes :
              proxies' = [proxies EXCEPT ![k] =
                  IF ok
                  THEN [@ EXCEPT !.success_count = @ + 1,
                                 !.response_time = rt,
                                 !.is_active = TRUE]
                  ELSE Failed(@)]
    /\ last_call' = "none" /\ returned' = "None" /\ rr_run' = <<>>
    /\ UNCHANGED <<entry, core_vars, email_vars, task_vars, social_vars, now, added>>

Proxy ==
    \/ GetRotatingProxy
    \/ AddProxy
    \/ RemoveProxy
    \/ MarkProxySuccess
    \/ MarkProxyFailure
    \/ CheckProxyHealth

\* a ProxyManager as its constructor leaves it
InitProxy ==
    /\ entry = "proxy"
    /\ InitIdle
    /\ InitEmailVars
    /\ InitTaskVars
    /\ InitProxyVars
    /\ InitSocialVars

SpecProxy == InitProxy /\ [][Proxy]_vars

----------------------------------------------------------------------------
(* Properties of the proxy pool, checked under SpecProxy *)

\* C26: a call of get_rotating_proxy returns None exactly when the pool
\* holds no active proxy, and otherwise a proxy that is in the pool and
\* active, for each quality
C26_ProxySelection ==
    last_call # "none" =>
        /\ returned = "None" <=> \A k \in DOMAIN proxies : ~proxies[k].is_active
        /\ returned # "None" =>
              \E k \in DOMAIN proxies :
                  proxies[k].id = returned /\ proxies[k].is_active

\* a call returned a proxy while the pool also held an inactive one
C26_Witness ==
    /\ last_call \in {"best", "random", "round-robin"}
    /\ returned # "None"
    /\ \E k \in DOMAIN proxies : ~proxies[k].is_active

\* C27: no proxy is active while it has more recorded outcomes than the
\* threshold and a success rate below 50%
C27_HealthInvariant ==
    \A k \in DOMAIN proxies :
        ~(proxies[k].is_active /\ Total(proxies[k]) > min_outcomes
          /\ RateBelowHalf(proxies[k]))

\* the latest round-robin calls returned different proxies
RotationWindow ==
    \A a, b \in DOMAIN rr_run : a # b => rr_run[a] # rr_run[b]

\* a round-robin call returns an active proxy none of the active proxies is
\* older than, a proxy never used being the oldest, and stamps it with the
\* time of the call
OldestReturned ==
    (last_call' = "round-robin" /\ returned' # "None") =>
        \E k \in ActiveProxies :
            /\ proxies[k].id = returned'
            /\ \A j \in ActiveProxies :
                   proxies[k].last_used <= proxies[j].last_used
            /\ proxies'[k].last_used = now'
            /\ \A j \in DOMAIN proxies : j # k => proxies'[j].last_used < now'

\* C28: round-robin returns the active proxy with the oldest last_used, a
\* proxy never used first, and stamps it; n consecutive calls on a fixed pool
\* of n active proxies return each of them exactly once
C28_RoundRobin == []RotationWindow /\ [][OldestReturned]_vars

\* three consecutive round-robin calls went round a pool of three active
\* proxies, one of which had been used before
C28_Witness ==
    /\ last_call = "round-robin"
    /\ Len(rr_run) = 3
    /\ Cardinality(ActiveProxies) = 3
    /\ {rr_run[k] : k \in DOMAIN rr_run} = {proxies[k].id : k \in ActiveProxies}
    /\ now > 3

----------------------------------------------------------------------------
(* _extract_social_media  (website_enrichment.py:269-301).  A URL is a      *)
(* sequence of its parts: scheme, "www.", domain, "/", path prefix, handle. *)

\* lines 44-55: per platform, the domains of its pattern, the path prefixes
\* of which one must precede the handle, the prefixes that may precede it,
\* and whether the handle is \d+
Pattern(domains, required, optional, digits_only) ==
    [domains |-> domains, required |-> required, optional |-> optional,
     digits_only |-> digits_only]

social_patterns ==
    [facebook  |-> Pattern({"facebook.com", "fb.com"}, {}, {"pages/"}, FALSE),
     instagram |-> Pattern({"instagram.com"}, {}, {}, FALSE),
     twitter   |-> Pattern({"twitter.com", "x.com"}, {}, {}, FALSE),
     linkedin  |-> Pattern({"linkedin.com"}, {"company/", "in/", "profile/"}, {}, FALSE),
     youtube   |-> Pattern({"youtube.com"}, {"channel/", "c/", "user/", "@/"}, {}, FALSE),
     tiktok    |-> Pattern({"tiktok.com"}, {"@"}, {}, FALSE),
     pinterest |-> Pattern({"pinterest.com"}, {}, {}, FALSE),
     snapchat  |-> Pattern({"snapchat.com"}, {"add/"}, {}, FALSE),
     whatsapp  |-> Pattern({"wa.me", "api.whatsapp.com"}, {}, {}, TRUE),
     telegram  |-> Pattern({"t.me", "telegram.me"}, {}, {}, FALSE)]

Platforms == DOMAIN social_patterns

\* the handles of the profiles: a name, a number, a name that begins with
\* the letters http
Handles == {"acme", "15551234", "httpfan"}

HandleMatches(pat, h) ==
    h \in Handles /\ (pat.digits_only => h = "15551234")

\* the position in parts of the handle captured by the match of pat that
\* starts with the domain at position k; 0 when there is no match there
GroupAt(pat, parts, k) ==
    IF ~(k + 2 <= Len(parts) /\ parts[k] \in pat.domains /\ parts[k + 1] = "/")
    THEN 0
    ELSE IF k + 3 <= Len(parts)
            /\ parts[k + 2] \in pat.required \cup pat.optional
            /\ HandleMatches(pat, parts[k + 3])
    THEN k + 3
    ELSE IF pat.required = {} /\ HandleMatches(pat, parts[k + 2])
    THEN k + 2
    ELSE 0

\* pattern.search(text) finds a match
PatternSearch(pat, parts) == \E k \in DOMAIN parts : GroupAt(pat, parts, k) # 0

\* group 1 of the first match of pat in parts
FirstGroup(pat, parts) ==
    LET k == CHOOSE j \in DOMAIN parts :
                 /\ GroupAt(pat, parts, j) # 0
                 /\ \A h \in 1..(j - 1) : GroupAt(pat, parts, h) = 0
    IN  parts[GroupAt(pat, parts, k)]

\* s.startswith('http')
StartsWithHttp(parts) ==
    parts # <<>> /\ parts[1] \in {"http://", "https://", "httpfan"}

\* if not href.startswith('http'): href = 'https://' + href
Normalized(parts) ==
    IF StartsWithHttp(parts) THEN parts ELSE <<"https://">> \o parts

\* the page's own address
base_url == <<"https://", "site.example">>

\* urljoin(base_url, href) for an href that starts with '/'
UrlJoin(base, href) == base \o href

\* the href values of the anchors
SocialHrefs ==
    { <<"https://", "www.", "facebook.com", "/", "pages/", "acme">>,
      <<"fb.com", "/", "acme">>,
      <<"http://", "x.com", "/", "acme">>,
      <<"www.", "linkedin.com", "/", "company/", "acme">>,
      <<"https://", "linkedin.com", "/", "acme">>,
      <<"https://", "wa.me", "/", "15551234">>,
      <<"https://", "wa.me", "/", "acme">>,
      <<"/", "about">>,
      <<"https://", "site.example", "/", "about">> }

\* the URLs that occur in the markup outside the anchors (scripts, text,
\* attributes other than href)
MarkupUrls ==
    { <<"https://", "www.", "instagram.com", "/", "acme">>,
      <<"https://", "facebook.com", "/", "httpfan">>,
      <<"https://", "tiktok.com", "/", "@", "acme">>,
      <<"https://", "t.me", "/", "acme">>,
      <<"https://", "cdn.example", "/", "app.js">> }

UpToTwo(S) == {<<>>} \cup {<<x>> : x \in S} \cup {<<x, y>> : x, y \in S}

\* lines 279-287: one anchor against every pattern, in the order of the
\* dict; href keeps the scheme it was given for an earlier platform
RECURSIVE ScanHref(_, _, _)
ScanHref(links, href, todo) ==
    IF todo = {} THEN links
    ELSE LET platform == CHOOSE p \in todo : TRUE
         IN  IF platform \notin DOMAIN links
                /\ PatternSearch(social_patterns[platform], href)
             THEN ScanHref(links @@ (platform :> Normalized(href)),
                           Normalized(href), todo \ {platform})
             ELSE ScanHref(links, href, todo \ {platform})

\* lines 273-287: the loop over the anchors
RECURSIVE ScanAnchors(_, _)
ScanAnchors(links, tags) ==
    IF tags = <<>> THEN links
    ELSE LET href == IF Head(tags)[1] = "/" THEN UrlJoin(base_url, Head(tags))
                     ELSE Head(tags)
         IN  ScanAnchors(ScanHref(links, href, Platforms), Tail(tags))

\* the text of the raw markup: the anchors' href values and the other URLs
Html == 
    LET RECURSIVE flat(_)
        flat(urls) == IF urls = <<>> THEN <<>>
                      ELSE Head(urls) \o <<" ">> \o flat(Tail(urls))
    IN  flat(a_tags \o markup_urls)

\* line 295: url = matches[0] if isinstance(matches[0], str) else ...; with
\* one group in the pattern, findall returns the strings of the group
FallbackUrl(pat) == Normalized(<<FirstGroup(pat, Html)>>)

\* lines 290-297
ScanMarkup(links) ==
    links @@ [platform \in {p \in Platforms \ DOMAIN links :
                               PatternSearch(social_patterns[p], Html)} |->
                  FallbackUrl(social_patterns[platform])]

S_Anchors ==
    /\ entry = "social" /\ spc = "anchors"
    /\ social_links' = ScanAnchors(social_links, a_tags)
    /\ spc' = "markup"
    /\ UNCHANGED <<entry, core_vars, email_vars, task_vars, proxy_vars,
                   a_tags, markup_urls>>

S_Markup ==
    /\ entry = "social" /\ spc = "markup"
    /\ social_links' = ScanMarkup(social_links)
    /\ spc' = "returned"
    /\ UNCHANGED <<entry, core_vars, email_vars, task_vars, proxy_vars,
                   a_tags, markup_urls>>

ExtractSocialMedia == S_Anchors \/ S_Markup

\* a call of _extract_social_media on a page with up to two anchors and up
\* to two URLs elsewhere in its markup
InitSocial ==
    /\ entry = "social"
    /\ InitIdle
    /\ InitEmailVars
    /\ InitTaskVars
    /\ InitProxyVars
    /\ a_tags \in UpToTwo(SocialHrefs)
    /\ markup_urls \in UpToTwo(MarkupUrls)
    /\ spc = "anchors"
    /\ social_links = <<>>

SpecSocial == InitSocial /\ [][ExtractSocialMedia]_vars

----------------------------------------------------------------------------
(* Properties of the social links, checked under SpecSocial *)

\* C29: every value stored under a platform, from an anchor or from the raw
\* markup, starts with an http or https scheme and matches the pattern of
\* that platform; the platform is one of the ten
C29_WellFormedLinks ==
    \A platform \in DOMAIN social_links :
        /\ platform \in Platforms
        /\ social_links[platform][1] \in {"http://", "https://"}
        /\ PatternSearch(social_patterns[platform], social_links[platform])

----------------------------------------------------------------------------
(* scrape_google_maps_optimized  (google_maps_optimized.py:465-494) *)

\* lines 470-484: the engine and the scraper are created and
\* scraper.scrape(input_data) is started on the event loop, without a
\* progress callback
W_Start ==
    /\ wpc = "start" /\ pc = "idle"
    /\ wpc' = "scraping"
    /\ pc' = "start"
    /\ UNCHANGED <<entry, max_results, progress_callback, exc, context,
                   context_closes, term, all_results, places_to_process, i,
                   window, tasks, results_before, search_vars, result,
                   enrich_vars, loop_messages, email_vars, task_vars,
                   proxy_vars, social_vars, wrapper_result, cleanups>>

\* lines 484-494: scrape has returned, engine.cleanup() is run and the
\* results are returned; an exception of scrape or of cleanup is caught at
\* line 490 and the error mapping returned
W_Finish ==
    /\ wpc = "scraping" /\ pc \in {"returned", "raised"}
    /\ wpc' = "returned"
    /\ IF pc = "returned"
       THEN \E ok \in BOOLEAN :
               /\ cleanups' = cleanups + 1
               /\ wrapper_result' = IF ok THEN "results" ELSE "error"
       ELSE /\ wrapper_result' = "error"
            /\ UNCHANGED cleanups
    /\ UNCHANGED <<entry, max_results, progress_callback, scrape_vars,
                   search_vars, result, enrich_vars, loop_messages,
                   email_vars, task_vars, proxy_vars, social_vars>>

Wrapper == W_Start \/ Scrape \/ W_Finish

\* a call of scrape_google_maps_optimized(input_data) with
\* input_data['max_results'] = max_results
InitWrapper ==
    /\ entry = "scrape"
    /\ max_results \in TargetCounts
    /\ progress_callback = "None"
    /\ pc = "idle"
    /\ dpc = "idle"
    /\ InitScrapeVars
    /\ InitSearchVars
    /\ InitEnrichVars
    /\ result = <<>>
    /\ loop_messages = 0
    /\ InitEmailVars
    /\ InitTaskVars
    /\ InitProxyVars
    /\ InitSocialVars
    /\ wpc = "start"
    /\ wrapper_result = "none"
    /\ cleanups = 0

SpecWrapper == InitWrapper /\ [][Wrapper]_vars

----------------------------------------------------------------------------
(* Properties of the wrapper, checked under SpecWrapper *)

\* C30: the wrapper returns the result list or an error mapping, and
\* engine.cleanup has run when it returns, also when scrape raised
C30_WrapperCleanup ==
    wpc = "returned" =>
        /\ wrapper_result \in {"results", "error"}
        /\ cleanups >= 1

============================================================================
